---- MODULE Spec2Model ----
(***************************************************************************)
(* Upload relay of the nemesis backend: the UploadQueue singleton          *)
(* (src/uploadQueue.js, three class definitions), its processUpload        *)
(* request builders, and the POST /api/service/upload admission handlers   *)
(* (src/upload.js, src/unnamed/part_000, src/unnamed/part_002).            *)
(*                                                                         *)
(* JavaScript strings are sequences of one-character strings, an optional  *)
(* value (undefined or a value) is a sequence of length 0 or 1.            *)
(***************************************************************************)
EXTENDS Integers, Sequences, FiniteSets, TLC

(***************************************************************************)
(* Bounds of the model.                                                    *)
(***************************************************************************)
MaxJobs == 3
MaxPending == 1

(***************************************************************************)
(* Optional values and strings.                                            *)
(***************************************************************************)
None == <<>>
Some(x) == <<x>>
IsSome(o) == Len(o) = 1
Val(o) == o[1]

WhiteSpace == {" ", "\t", "\n", "\r"}

RECURSIVE SkipLeading(_, _)
RECURSIVE SkipTrailing(_, _)

\* The first position from i on, and the last one down from i, that holds
\* no white space.
SkipLeading(s, i) ==
    IF i > Len(s) \/ s[i] \notin WhiteSpace THEN i ELSE SkipLeading(s, i + 1)

SkipTrailing(s, i) ==
    IF i < 1 \/ s[i] \notin WhiteSpace THEN i ELSE SkipTrailing(s, i - 1)

\* String.prototype.trim: drop the white space at both ends.
Trim(s) == SubSeq(s, SkipLeading(s, 1), SkipTrailing(s, Len(s)))

LowerChar(c) ==
    CASE c = "I" -> "i"
      [] c = "N" -> "n"
      [] c = "T" -> "t"
      [] c = "X" -> "x"
      [] c = "A" -> "a"
      [] OTHER -> c

\* String.prototype.toLowerCase on the letters the model uses.
ToLowerCase(s) == [i \in 1..Len(s) |-> LowerChar(s[i])]

\* String.prototype.endsWith.
EndsWith(s, suffix) ==
    /\ Len(suffix) <= Len(s)
    /\ SubSeq(s, Len(s) - Len(suffix) + 1, Len(s)) = suffix

\* s occurs in t as a contiguous substring.
Contains(t, s) ==
    \E i \in 1..(Len(t) - Len(s) + 1) : SubSeq(t, i, i + Len(s) - 1) = s

(***************************************************************************)
(* JSON.parse and JSON.stringify on the subset of JSON the embeds use:     *)
(* arrays, objects with string keys, strings without escapes, unsigned     *)
(* integers and null.  A value is [t |-> tag, v |-> sequence].             *)
(***************************************************************************)
Digits == {"0", "1", "2", "3", "4", "5", "6", "7", "8", "9"}

JFail == [ok |-> FALSE, val |-> [t |-> "null", v |-> <<>>], pos |-> 0]
JOk(val, pos) == [ok |-> TRUE, val |-> val, pos |-> pos]

RECURSIVE SkipWs(_, _)
RECURSIVE ClosingQuote(_, _)
RECURSIVE DigitsEnd(_, _)

\* First position at or after i that holds no white space (Len(s)+1 at the end).
SkipWs(s, i) ==
    IF i > Len(s) \/ s[i] \notin WhiteSpace THEN i ELSE SkipWs(s, i + 1)

\* First position at or after j that holds a double quote, 0 if none does.
ClosingQuote(s, j) ==
    IF j > Len(s) THEN 0 ELSE IF s[j] = "\"" THEN j ELSE ClosingQuote(s, j + 1)

\* The literal that opened at position i closes at position j.
StringUpTo(s, i, j) ==
    IF j = 0 THEN JFail ELSE JOk([t |-> "str", v |-> SubSeq(s, i + 1, j - 1)], j + 1)

\* A string literal that opens at position i.
ParseString(s, i) ==
    IF i > Len(s) \/ s[i] # "\"" THEN JFail ELSE StringUpTo(s, i, ClosingQuote(s, i + 1))

\* First position at or after j that holds no digit (Len(s)+1 at the end).
DigitsEnd(s, j) ==
    IF j > Len(s) \/ s[j] \notin Digits THEN j ELSE DigitsEnd(s, j + 1)

NumberUpTo(s, i, j) ==
    IF j = i THEN JFail ELSE JOk([t |-> "num", v |-> SubSeq(s, i, j - 1)], j)

\* A run of digits that starts at position i.
ParseNumber(s, i) == NumberUpTo(s, i, DigitsEnd(s, i))

RECURSIVE ParseValue(_, _)
RECURSIVE ParseElems(_, _, _)
RECURSIVE ParseMembers(_, _, _)

\* After the element r of an array, at position j: "," or "]".
ElemsNext(s, r, j, acc) ==
    IF j > Len(s) THEN JFail
    ELSE IF s[j] = "," THEN ParseElems(s, j + 1, Append(acc, r.val))
    ELSE IF s[j] = "]" THEN JOk([t |-> "arr", v |-> Append(acc, r.val)], j + 1)
    ELSE JFail

ElemsAfter(s, r, acc) ==
    IF ~r.ok THEN JFail ELSE ElemsNext(s, r, SkipWs(s, r.pos), acc)

\* The elements of an array after "[" or ",": acc holds the elements read.
ParseElems(s, i, acc) == ElemsAfter(s, ParseValue(s, i), acc)

\* After the member k : r of an object, at position j: "," or "}".
MembersNext(s, k, r, j, acc) ==
    IF j > Len(s) THEN JFail
    ELSE IF s[j] = "," THEN ParseMembers(s, j + 1, Append(acc, <<k.val.v, r.val>>))
    ELSE IF s[j] = "}" THEN JOk([t |-> "obj", v |-> Append(acc, <<k.val.v, r.val>>)], j + 1)
    ELSE JFail

MemberValue(s, k, r, acc) ==
    IF ~r.ok THEN JFail ELSE MembersNext(s, k, r, SkipWs(s, r.pos), acc)

MemberColon(s, k, c, acc) ==
    IF c > Len(s) \/ s[c] # ":" THEN JFail
    ELSE MemberValue(s, k, ParseValue(s, c + 1), acc)

MemberKey(s, k, acc) ==
    IF ~k.ok THEN JFail ELSE MemberColon(s, k, SkipWs(s, k.pos), acc)

\* The members of an object after "{" or ",": acc holds the members read.
ParseMembers(s, i, acc) == MemberKey(s, ParseString(s, SkipWs(s, i)), acc)

\* The value that starts at position b, white space already skipped.
ValueAt(s, b) ==
    IF b > Len(s) THEN JFail
    ELSE IF s[b] = "[" THEN
        IF SkipWs(s, b + 1) <= Len(s) /\ s[SkipWs(s, b + 1)] = "]"
        THEN JOk([t |-> "arr", v |-> <<>>], SkipWs(s, b + 1) + 1)
        ELSE ParseElems(s, b + 1, <<>>)
    ELSE IF s[b] = "{" THEN
        IF SkipWs(s, b + 1) <= Len(s) /\ s[SkipWs(s, b + 1)] = "}"
        THEN JOk([t |-> "obj", v |-> <<>>], SkipWs(s, b + 1) + 1)
        ELSE ParseMembers(s, b + 1, <<>>)
    ELSE IF s[b] = "\"" THEN ParseString(s, b)
    ELSE IF s[b] \in Digits THEN ParseNumber(s, b)
    ELSE IF b + 3 <= Len(s) /\ SubSeq(s, b, b + 3) = <<"n", "u", "l", "l">>
        THEN JOk([t |-> "null", v |-> <<>>], b + 4)
    ELSE JFail

ParseValue(s, i) == ValueAt(s, SkipWs(s, i))

WholeInput(s, r) ==
    IF r.ok /\ SkipWs(s, r.pos) = Len(s) + 1 THEN r ELSE JFail

\* JSON.parse: ok is FALSE where JSON.parse throws a SyntaxError.
JsonParse(s) == WholeInput(s, ParseValue(s, 1))

RECURSIVE JsonStringify(_)
RECURSIVE JoinValues(_, _)
RECURSIVE JoinMembers(_, _)

JoinValues(vs, i) ==
    IF i > Len(vs) THEN <<>>
    ELSE (IF i > 1 THEN <<",">> ELSE <<>>) \o JsonStringify(vs[i]) \o JoinValues(vs, i + 1)

JoinMembers(ms, i) ==
    IF i > Len(ms) THEN <<>>
    ELSE (IF i > 1 THEN <<",">> ELSE <<>>)
         \o <<"\"">> \o ms[i][1] \o <<"\"", ":">> \o JsonStringify(ms[i][2])
         \o JoinMembers(ms, i + 1)

\* JSON.stringify without indentation.
JsonStringify(val) ==
    CASE val.t = "arr" -> <<"[">> \o JoinValues(val.v, 1) \o <<"]">>
      [] val.t = "obj" -> <<"{">> \o JoinMembers(val.v, 1) \o <<"}">>
      [] val.t = "str" -> <<"\"">> \o val.v \o <<"\"">>
      [] val.t = "num" -> val.v
      [] OTHER -> <<"n", "u", "l", "l">>

\* Array.isArray.
IsArray(val) == val.t = "arr"

(***************************************************************************)
(* UploadQueue.processUpload: the request each class definition builds.    *)
(* A job is [id, file, content, embeds, configId]; file is an optional     *)
(* [originalname, size, buffer], content and embeds are optional strings.  *)
(* A request is [type, parts, payload]: a multipart body is its parts in   *)
(* order, a JSON body is the payload that JSON.stringify serialises.       *)
(***************************************************************************)
Variants == {"formdata", "payload_json", "manual"}

\* The code units of the folder emoji that opens both default strings.
FolderEmoji == <<"U+D83D", "U+DCC1">>

DefaultPrefix ==
    FolderEmoji \o <<" ", "N", "e", "w", " ", "c", "o", "n", "f", "i", "g", " ",
                     "u", "p", "l", "o", "a", "d", "e", "d", ":", " ">>

ConfigIni == <<"c", "o", "n", "f", "i", "g", ".", "i", "n", "i">>

FallbackContent ==
    FolderEmoji \o <<" ", "C", "o", "n", "f", "i", "g", " ", "u", "p", "l", "o", "a", "d", " ",
                     "n", "o", "t", "i", "f", "i", "c", "a", "t", "i", "o", "n">>

\* `New config uploaded: ${file?.originalname || 'config.ini'}`
DefaultContent(job) ==
    DefaultPrefix \o (IF IsSome(job.file) /\ Len(Val(job.file).originalname) > 0
                      THEN Val(job.file).originalname
                      ELSE ConfigIni)

\* Ensure content is never empty: the last resort of the normalisation.
OrFallback(picked) == IF Len(picked) = 0 THEN FallbackContent ELSE picked

\* Mutant: the trimmed content is taken even when nothing is left of it.
PickTrimmed(c, trimmed, default) == trimmed

\* (content && content.trim()) ? content.trim() : defaultContent
PickContent(c, trimmed, default) ==
    IF IsSome(c) /\ Len(Val(c)) > 0 /\ Len(trimmed) > 0 THEN trimmed ELSE default

\* The content normalisation of the form-data and manual variants.
FinalContent(job) ==
    OrFallback(PickContent(job.content,
                           IF IsSome(job.content) THEN Trim(Val(job.content)) ELSE <<>>,
                           DefaultContent(job)))

\* content || default, of the payload_json variant.
PayloadContent(job) ==
    IF IsSome(job.content) /\ Len(Val(job.content)) > 0
    THEN Val(job.content)
    ELSE DefaultContent(job)

\* try { JSON.parse(embeds) } catch (e) { skip }
ParsedOrSkipped(r) == IF r.ok THEN Some(r.val) ELSE None

\* if (embeds) { ... }: the parsed embeds, absent when embeds is undefined,
\* empty or not JSON.
ParsedEmbeds(job) ==
    IF IsSome(job.embeds) /\ Len(Val(job.embeds)) > 0
    THEN ParsedOrSkipped(JsonParse(Val(job.embeds)))
    ELSE None

NoPayload == [content |-> <<>>, embeds |-> None]
TextPart(name, value) ==
    [name |-> name, kind |-> "text", value |-> value, filename |-> <<>>, data |-> 0]
FilePart(name, file) ==
    [name |-> name, kind |-> "file", value |-> <<>>, filename |-> file.originalname,
     data |-> file.buffer]
JsonPart(name) ==
    [name |-> name, kind |-> "json", value |-> <<>>, filename |-> <<>>, data |-> 0]

MultipartRequest(parts, payload) == [type |-> "multipart", parts |-> parts, payload |-> payload]
JsonRequest(payload) == [type |-> "json", parts |-> <<>>, payload |-> payload]
NoRequest == [type |-> "none", parts |-> <<>>, payload |-> NoPayload]

\* The content-only branch shared by the form-data and manual variants.
BuildJson(job) ==
    JsonRequest([content |-> FinalContent(job), embeds |-> ParsedEmbeds(job)])

\* formData.append('content', ...), append('file', ...) and, with embeds,
\* a second append('content', finalContent + '\n' + JSON.stringify(embedsData)).
FormDataParts(file, final, embeds) ==
    <<TextPart("content", final), FilePart("file", file)>>
    \o (IF IsSome(embeds)
        THEN <<TextPart("content", final \o <<"\n">> \o JsonStringify(Val(embeds)))>>
        ELSE <<>>)

\* First class definition: form-data, the embeds appended as a content field.
BuildFormData(job) ==
    IF IsSome(job.file)
    THEN MultipartRequest(FormDataParts(Val(job.file), FinalContent(job), ParsedEmbeds(job)),
                          NoPayload)
    ELSE BuildJson(job)

\* Second class definition: always form-data, files[0] and payload_json.
BuildPayloadJson(job) ==
    MultipartRequest(
        (IF IsSome(job.file) THEN <<FilePart("files[0]", Val(job.file))>> ELSE <<>>)
        \o <<JsonPart("payload_json")>>,
        [content |-> PayloadContent(job), embeds |-> ParsedEmbeds(job)])

\* The content part, the file part and, with embeds, an embeds part.
ManualParts(file, final, embeds) ==
    <<TextPart("content", final), FilePart("file", file)>>
    \o (IF IsSome(embeds)
        THEN <<TextPart("embeds", JsonStringify(Val(embeds)))>>
        ELSE <<>>)

\* Third class definition: hand-built multipart, the embeds as their own part.
BuildManual(job) ==
    IF IsSome(job.file)
    THEN MultipartRequest(ManualParts(Val(job.file), FinalContent(job), ParsedEmbeds(job)),
                          NoPayload)
    ELSE BuildJson(job)

BuildRequest(v, job) ==
    CASE v = "formdata" -> BuildFormData(job)
      [] v = "payload_json" -> BuildPayloadJson(job)
      [] OTHER -> BuildManual(job)

\* Mutant: processUpload builds and sends the request without testing
\* CLOUD_WEBHOOK.
ProcessUploadUnchecked(v, env, job) == [threw |-> FALSE, request |-> BuildRequest(v, job)]

\* processUpload up to its first network call: it throws when CLOUD_WEBHOOK
\* is unset, otherwise the request goes out.
ProcessUpload(v, env, job) ==
    IF ~env THEN [threw |-> TRUE, request |-> NoRequest]
    ELSE [threw |-> FALSE, request |-> BuildRequest(v, job)]

(***************************************************************************)
(* State.                                                                  *)
(***************************************************************************)
VARIABLES
    variant,      \* which UploadQueue class definition the process loaded
    endpoint,     \* which POST /api/service/upload handler is mounted
    webhook,      \* process.env.CLOUD_WEBHOOK is set
    queue,        \* UploadQueue.queue
    processing,   \* UploadQueue.processing
    consumers,    \* the suspended consumer continuations: [drain, pc, job]
    drains,       \* number of consumer loops started so far
    enqueued,     \* ids of the jobs passed to add(), in call order
    delivered,    \* ids of the jobs passed to processUpload(), in call order
    outcome,      \* how each processUpload() call of delivered ended, "" while open
    addedIn,      \* per job of enqueued: the drain in whose pause add() came, else 0
    deliveredBy,  \* per job of delivered: the drain that called processUpload()
    sent,         \* the last request handed to fetch(CLOUD_WEBHOOK)
    pending,      \* upload requests of the server handler awaiting the storage fetch
    resp,         \* the last response of the upload endpoint
    lastReq,      \* the request that response, or the wait at the storage upload, is for
    call,         \* a direct processUpload() call: its argument and its result
    storageApiAvailable,  \* the flag of the server module
    isAvailable,  \* ConfigStorage.isAvailable
    healthy,      \* the Storage Service answers its /health with an OK status
    inflight,     \* storage requests under way: [ensure, load, check]
    disk,         \* the directories of the storage server: [config, media], name -> text
    runtime,      \* what fs.writeFileSync does with undefined data, once it was seen
    clock,        \* Date.now() of the storage server
    answer,       \* the last response of the storage server
    asked,        \* the request that response is for: [id, upload]
    calls,        \* the storageApi() calls made so far, each with its progress
    acted,        \* the storageApi() call the last step belongs to, 0 if none
    routed,       \* the last request to the storage router and what became of it
    caches,       \* configsCache and featureMediaCache of the server module
    uptime,       \* Date.now() of the server module, in ticks of TickMs
    lastOp        \* the operation that ran last

vars == <<variant, endpoint, webhook, queue, processing, consumers, drains, enqueued,
          delivered, outcome, addedIn, deliveredBy, sent, pending, resp, lastReq, call,
          storageApiAvailable, isAvailable, healthy, inflight,
          disk, runtime, clock, answer, asked, calls, acted, routed, caches, uptime,
          lastOp>>

storageVars == <<storageApiAvailable, isAvailable, healthy, inflight>>

serviceVars == <<disk, runtime, clock, answer, asked>>

\* The parts of the backend that the upload path does not touch.
apiVars == <<calls, acted>>

routerVars == <<routed>>

cacheVars == <<caches, uptime>>

componentVars == <<serviceVars, apiVars, routerVars, cacheVars>>

Endpoints == {"router", "server"}

\* The paced class definitions re-arm a timer after each job, the
\* payload_json one drains in a while loop.
Paced(v) == v \in {"formdata", "manual"}

(***************************************************************************)
(* The queue object as a value, so that add(), processQueue() and          *)
(* processNext() compose the way the calls nest.                           *)
(***************************************************************************)
QState ==
    [queue |-> queue, processing |-> processing, consumers |-> consumers, drains |-> drains,
     enqueued |-> enqueued, delivered |-> delivered, outcome |-> outcome,
     addedIn |-> addedIn, deliveredBy |-> deliveredBy, sent |-> sent]

SetQState(s) ==
    /\ queue' = s.queue
    /\ processing' = s.processing
    /\ consumers' = s.consumers
    /\ drains' = s.drains
    /\ enqueued' = s.enqueued
    /\ delivered' = s.delivered
    /\ outcome' = s.outcome
    /\ addedIn' = s.addedIn
    /\ deliveredBy' = s.deliveredBy
    /\ sent' = s.sent

\* Mutant: processUpload() runs to its end inside the call, nothing suspends.
SuspendSettled(s, d, job, r) ==
    [s EXCEPT !.delivered = Append(@, job.id),
              !.outcome = Append(@, IF r.threw THEN "config" ELSE "ok"),
              !.deliveredBy = Append(@, d),
              !.sent = IF r.threw THEN @ ELSE r.request]

\* await this.processUpload(uploadData): the consumer of drain d suspends
\* in the call, whose start gave r.
Suspend(s, d, job, r) ==
    [s EXCEPT !.delivered = Append(@, job.id),
              !.outcome = Append(@, ""),
              !.deliveredBy = Append(@, d),
              !.consumers = @ \cup {[drain |-> d,
                                     pc |-> IF r.threw THEN "threw" ELSE "fetch",
                                     job |-> job]},
              !.sent = IF r.threw THEN @ ELSE r.request]

\* const uploadData = this.queue.shift(); await this.processUpload(uploadData)
Shift(s, d) ==
    Suspend([s EXCEPT !.queue = Tail(s.queue)], d, Head(s.queue),
            ProcessUpload(variant, webhook, Head(s.queue)))

\* Mutant: the flag is not cleared when the queue has run empty.
ProcessNextStaysBusy(s, d) ==
    IF Len(s.queue) = 0 THEN s ELSE Shift(s, d)

\* processNext of the paced class definitions.
ProcessNext(s, d) ==
    IF Len(s.queue) = 0
    THEN [s EXCEPT !.processing = FALSE]
    ELSE Shift(s, d)

\* One turn of while (this.queue.length > 0) and the exit after it.
LoopTurn(s, d) ==
    IF Len(s.queue) > 0
    THEN Shift(s, d)
    ELSE [s EXCEPT !.processing = FALSE]

\* Mutant: the drain starts without setting the flag.
MarkBusyForgotten(s) == [s EXCEPT !.drains = @ + 1]

\* this.processing = true, on entering a drain.
MarkBusy(s) == [s EXCEPT !.processing = TRUE, !.drains = @ + 1]

\* processQueue(), up to its first suspension.
ProcessQueue(s) ==
    IF s.processing \/ Len(s.queue) = 0
    THEN s
    ELSE LET b == MarkBusy(s)
         IN  IF Paced(variant) THEN ProcessNext(b, b.drains) ELSE LoopTurn(b, b.drains)

\* Mutant: unshift instead of push.
PushAtHead(q, job) == <<job>> \o q

\* this.queue.push(uploadData)
Push(q, job) == Append(q, job)

\* The drain that is pausing between two deliveries, 0 when none is.
PausingDrain(cs) ==
    IF \E c \in cs : c.pc = "timer"
    THEN (CHOOSE c \in cs : c.pc = "timer").drain
    ELSE 0

\* if (!this.processing) { this.processQueue(); }
StartIfIdle(p) == IF ~p.processing THEN ProcessQueue(p) ELSE p

\* add(uploadData), up to the point where it returns to its caller.
AddJob(s, job) ==
    StartIfIdle([s EXCEPT !.queue = Push(s.queue, job),
                          !.enqueued = Append(@, job.id),
                          !.addedIn = Append(@, PausingDrain(s.consumers))])

\* Mutant: the catch block puts the failed job back for a retry.
RetryFirst(q, job) == <<job>> \o q

\* catch (error) { console.error(...) }: the queue after a failed delivery.
OnUploadFailed(q, job) == q

\* The position in delivered of the open processUpload() call on job id.
OpenCall(s, id) ==
    CHOOSE i \in 1..Len(s.delivered) : s.delivered[i] = id /\ s.outcome[i] = ""

\* The try/catch around the await: the call of consumer c settled with r.
Caught(s, c, r) ==
    [s EXCEPT !.queue = IF r = "ok" THEN @ ELSE OnUploadFailed(@, c.job),
              !.outcome = [@ EXCEPT ![OpenCall(s, c.job.id)] = r],
              !.consumers = @ \ {c}]

\* Mutant: nothing follows the try/catch, the drain ends there.
ContinueStops(t, c) == t

\* Mutant: the paced definitions clear the flag while the timer is armed.
ContinueIdle(t, c) ==
    IF Paced(variant)
    THEN [t EXCEPT !.consumers = @ \cup {[c EXCEPT !.pc = "timer"]}, !.processing = FALSE]
    ELSE LoopTurn(t, c.drain)

\* Mutant: the paced definitions call processNext() at once, without a timer.
ContinueAtOnce(t, c) ==
    IF Paced(variant) THEN ProcessNext(t, c.drain) ELSE LoopTurn(t, c.drain)

\* After the try/catch: the paced definitions arm setTimeout(processNext, 60000),
\* the while loop tests its condition again.
Continue(t, c) ==
    IF Paced(variant)
    THEN [t EXCEPT !.consumers = @ \cup {[c EXCEPT !.pc = "timer"]}]
    ELSE LoopTurn(t, c.drain)

\* The consumer c resumes after its processUpload() call settled with result r.
Settle(s, c, r) == Continue(Caught(s, c, r), c)

(***************************************************************************)
(* POST /api/service/upload: the checks of the two handlers.  A request    *)
(* is [file, content, embeds] as multer leaves it in req.file / req.body.  *)
(***************************************************************************)
MulterLimit == 10 * 1024 * 1024
MaxFileSize == 1024 * 1024
MaxContentLength == 2000
IniSuffix == <<".", "i", "n", "i">>

Response(status, error, message) == [status |-> status, error |-> error, message |-> message]
NoResponse == Response(0, "", "")
Accepted == Response(200, "", "")

\* upload.single('file') with limits.fileSize: a larger file never reaches
\* the handler, Express answers the MulterError itself.
MulterCheck(req) ==
    IF IsSome(req.file) /\ Val(req.file).size > MulterLimit
    THEN Response(500, "MulterError", "")
    ELSE Accepted

\* Mutant: the handler does not look at CLOUD_WEBHOOK.
WebhookCheckSkipped(env) == Accepted

\* if (!process.env.CLOUD_WEBHOOK) return res.status(500)...
WebhookCheck(env) ==
    IF ~env THEN Response(500, "Webhook not configured", "") ELSE Accepted

\* Mutant: the handlers do not look at the file name.
FileTypeSkipped(file) == TRUE

\* req.file.originalname.toLowerCase().endsWith('.ini')
FileTypeOk(file) == EndsWith(ToLowerCase(file.originalname), IniSuffix)
FileSizeOk(file) == ~(file.size > MaxFileSize)

\* Mutant: the handlers do not look at the length of the content.
ContentUnchecked(req) == TRUE

\* req.body.content && req.body.content.length > 2000
ContentOk(req) ==
    ~(IsSome(req.content) /\ Len(Val(req.content)) > 0
      /\ Len(Val(req.content)) > MaxContentLength)

\* Mutant: any array passes, whatever its length.
EmbedsLengthUnchecked(r) ==
    IF ~r.ok THEN "Invalid embeds JSON"
    ELSE IF ~IsArray(r.val) THEN "Invalid embeds format"
    ELSE ""

\* Array.isArray(embeds), embeds.length > 1 and the catch around JSON.parse:
\* "" when the parsed field passes, else the error of the server handler.
EmbedsVerdict(r) ==
    IF ~r.ok THEN "Invalid embeds JSON"
    ELSE IF ~IsArray(r.val) THEN "Invalid embeds format"
    ELSE IF Len(r.val.v) > 1 THEN "Too many embeds"
    ELSE ""

\* if (req.body.embeds) { ... }
EmbedsError(req) ==
    IF ~(IsSome(req.embeds) /\ Len(Val(req.embeds)) > 0) THEN ""
    ELSE EmbedsVerdict(JsonParse(Val(req.embeds)))

\* The handler of src/upload.js and src/unnamed/part_000 up to the enqueue.
ValidateRouter(env, req) ==
    IF ~env THEN WebhookCheck(env)
    ELSE IF IsSome(req.file) /\ ~FileTypeOk(Val(req.file))
        THEN Response(400, "Only .ini files are allowed", "")
    ELSE IF IsSome(req.file) /\ ~FileSizeOk(Val(req.file))
        THEN Response(400, "File too large", "")
    ELSE IF ~ContentOk(req) THEN Response(400, "Content too long", "")
    ELSE IF EmbedsError(req) # "" THEN Response(400, "Invalid embeds format", "")
    ELSE Accepted

EmbedsResponse(e) == IF e # "" THEN Response(400, e, "") ELSE Accepted

\* The handler of src/unnamed/part_002 up to the storage upload.
ValidateServer(env, req) ==
    IF ~env THEN WebhookCheck(env)
    ELSE IF ~IsSome(req.file) THEN Response(400, "No file provided", "")
    ELSE IF ~FileTypeOk(Val(req.file)) THEN Response(400, "Invalid file type", "")
    ELSE IF ~FileSizeOk(Val(req.file)) THEN Response(400, "File size exceeds limit", "")
    ELSE IF ~ContentOk(req) THEN Response(400, "Content exceeds Discord character limit", "")
    ELSE EmbedsResponse(EmbedsError(req))

\* The route: the multer middleware, then the handler.
RouteRouter(env, req) ==
    IF MulterCheck(req).status # 200 THEN MulterCheck(req) ELSE ValidateRouter(env, req)

RouteServer(env, req) ==
    IF MulterCheck(req).status # 200 THEN MulterCheck(req) ELSE ValidateServer(env, req)

\* The job object literal the handlers pass to uploadQueue.add.
MakeJob(id, req, configId) ==
    [id |-> id, file |-> req.file, content |-> req.content, embeds |-> req.embeds,
     configId |-> configId]

(***************************************************************************)
(* The inputs the model draws from.                                        *)
(***************************************************************************)
CfgIni == <<"c", "f", "g", ".", "i", "n", "i">>
UpperIni == <<"a", ".", "I", "N", "I">>
ATxt == <<"a", ".", "t", "x", "t">>
Hello == <<"h", "e", "l", "l", "o">>
PaddedHi == <<" ", "h", "i", " ">>
Blank == <<" ", "\n">>
OneEmbed == <<"[", "{", "\"", "t", "i", "t", "l", "e", "\"", ":", "\"", "t", "\"", "}", "]">>
SpacedEmbed ==
    <<"[", " ", "{", "\"", "t", "i", "t", "l", "e", "\"", ":", "\"", "t", "\"", "}", " ", "]">>
TwoEmbeds == <<"[", "{", "}", ",", "{", "}", "]">>
NoEmbeds == <<"[", "]">>
ObjectEmbed == <<"{", "}">>
NotJson == <<"n", "o", "p", "e">>

File(name, size) == [originalname |-> name, size |-> size, buffer |-> 1]
Request(file, content, embeds) == [file |-> file, content |-> content, embeds |-> embeds]

\* Jobs other callers hand to add() directly.
JobInputs ==
    { Request(Some(File(CfgIni, 100)), None, None),
      Request(None, Some(Hello), None) }

\* Requests that reach the upload endpoint.
Requests ==
    { Request(Some(File(CfgIni, 100)), None, None),
      Request(None, Some(Hello), None),
      Request(Some(File(ATxt, 100)), Some(Hello), None),
      Request(Some(File(CfgIni, MaxFileSize + 1)), None, None),
      Request(Some(File(CfgIni, MulterLimit + 1)), None, None),
      Request(Some(File(CfgIni, 100)), None, Some(TwoEmbeds)) }

\* The arguments of the direct processUpload() calls.
AllJobs ==
    { MakeJob(1, Request(f, c, e), None) :
        f \in {None, Some(File(CfgIni, 100)), Some(File(UpperIni, 100)), Some(File(<<>>, 0))},
        c \in {None, Some(<<>>), Some(Blank), Some(Hello), Some(PaddedHi)},
        e \in {None, Some(<<>>), Some(OneEmbed), Some(SpacedEmbed), Some(NoEmbeds),
               Some(NotJson)} }

NoJob == MakeJob(0, Request(None, None, None), None)
NoCall == [job |-> NoJob, done |-> FALSE, threw |-> FALSE, request |-> NoRequest]

(***************************************************************************)
(* Initial state: the modules were loaded, new UploadQueue() ran, the      *)
(* server module called ensureStorageAccess() and new ConfigStorage()      *)
(* called checkHealth(); both health requests are under way.               *)
(***************************************************************************)
\* storageApi(method, path, body = null, retries = 3)
Retries == 3

\* A directory: file name -> text.
EmptyDir == [n \in {} |-> <<>>]

\* A response of the storage server: body is a sequence of JSON values.
Answer(status, error, body) == [status |-> status, error |-> error, body |-> body]

\* A request to the storage server: the :id of its path and its file, where
\* it has them.
Asked(id, upload) == [id |-> id, upload |-> upload]

\* The storage server has started on empty directories (ensureDirectories).
ServiceInit ==
    /\ disk = [config |-> EmptyDir, media |-> EmptyDir]
    /\ runtime = "unseen"
    /\ clock = 1
    /\ answer = Answer(0, "", <<>>)
    /\ asked = Asked(<<>>, None)

\* No storageApi() call was made yet.
ApiInit == calls = <<>> /\ acted = 0

\* What the router did with a request: the route, the file of an upload,
\* the status answered (0 while the handler waits for the Storage Service),
\* the requests made to the Storage Service, and whether makeRequest threw.
Routed(route, upload, status, requests, threw) ==
    [route |-> route, upload |-> upload, status |-> status, requests |-> requests,
     threw |-> threw]

\* No request has reached the router yet.
RouterInit == routed = Routed("", None, 0, 0, FALSE)

CacheNames == {"configs", "featureMedia"}

\* Two minutes, so that three ticks are over the refresh interval and two
\* are not.
TickMs == 2 * 60 * 1000

\* { data: [], lastUpdated: 0, updating: false }; fetching counts the
\* requests to the channel that are under way.  Date.now() at startup is
\* far above the refresh interval.
CacheInit ==
    /\ caches = [c \in CacheNames |->
                   [data |-> <<>>, lastUpdated |-> 0, updating |-> FALSE, fetching |-> 0]]
    /\ uptime = 3

ComponentsInit == ServiceInit /\ ApiInit /\ RouterInit /\ CacheInit

\* ensure and load are the attempt a storageApi() call is at, Retries when
\* no such call is under way; check tells whether a checkHealth() is.
Started == [ensure |-> 0, load |-> Retries, check |-> TRUE]

Init ==
    /\ variant \in Variants
    /\ endpoint \in Endpoints
    /\ webhook \in BOOLEAN
    /\ queue = <<>>
    /\ processing = FALSE
    /\ consumers = {}
    /\ drains = 0
    /\ enqueued = <<>>
    /\ delivered = <<>>
    /\ outcome = <<>>
    /\ addedIn = <<>>
    /\ deliveredBy = <<>>
    /\ sent = NoRequest
    /\ pending = <<>>
    /\ resp = NoResponse
    /\ lastReq = Request(None, None, None)
    /\ call = NoCall
    /\ storageApiAvailable = FALSE
    /\ isAvailable = FALSE
    /\ healthy = TRUE
    /\ inflight = Started
    /\ ComponentsInit
    /\ lastOp = "init"

\* A continuation that the await of a rejected promise queued as a microtask
\* runs before any other callback.
NoMicrotask == \A c \in consumers : c.pc # "threw"

\* Jobs admitted so far, counting the requests still at the storage upload.
Admitted == Len(enqueued) + Len(pending)

(***************************************************************************)
(* Actions.                                                                *)
(***************************************************************************)
\* uploadQueue.add(job) called directly.
Add ==
    /\ NoMicrotask
    /\ Admitted < MaxJobs
    /\ \E r \in JobInputs : SetQState(AddJob(QState, MakeJob(Len(enqueued) + 1, r, None)))
    /\ lastOp' = "add"
    /\ UNCHANGED storageVars
    /\ UNCHANGED componentVars
    /\ UNCHANGED <<variant, endpoint, webhook, pending, resp, lastReq, call>>

\* uploadQueue.processQueue() called directly.
ProcessQueueCall ==
    /\ NoMicrotask
    /\ SetQState(ProcessQueue(QState))
    /\ lastOp' = "processQueue"
    /\ UNCHANGED storageVars
    /\ UNCHANGED componentVars
    /\ UNCHANGED <<variant, endpoint, webhook, pending, resp, lastReq, call>>

\* The fetch of a delivery completes: a 2xx answer, or anything else
\* (non-2xx status, network error, unreadable body), which throws.
FetchDone ==
    /\ NoMicrotask
    /\ \E c \in consumers, r \in {"ok", "failed"} :
        /\ c.pc = "fetch"
        /\ SetQState(Settle(QState, c, r))
    /\ lastOp' = "fetchDone"
    /\ UNCHANGED storageVars
    /\ UNCHANGED componentVars
    /\ UNCHANGED <<variant, endpoint, webhook, pending, resp, lastReq, call>>

\* The await of a processUpload() that threw before any request resumes.
Resume ==
    /\ \E c \in consumers :
        /\ c.pc = "threw"
        /\ SetQState(Settle(QState, c, "config"))
    /\ lastOp' = "resume"
    /\ UNCHANGED storageVars
    /\ UNCHANGED componentVars
    /\ UNCHANGED <<variant, endpoint, webhook, pending, resp, lastReq, call>>

\* setTimeout(processNext, 60000) fires.
TimerFire ==
    /\ NoMicrotask
    /\ \E c \in consumers :
        /\ c.pc = "timer"
        /\ SetQState(ProcessNext([QState EXCEPT !.consumers = @ \ {c}], c.drain))
    /\ lastOp' = "timer"
    /\ UNCHANGED storageVars
    /\ UNCHANGED componentVars
    /\ UNCHANGED <<variant, endpoint, webhook, pending, resp, lastReq, call>>

\* The router handler answers v to req: an error, or the job is enqueued.
AnswerRouter(req, v) ==
    IF v.status # 200
    THEN /\ resp' = v
         /\ UNCHANGED <<queue, processing, consumers, drains, enqueued, delivered, outcome,
                     addedIn, deliveredBy, sent>>
    ELSE /\ SetQState(AddJob(QState, MakeJob(Len(enqueued) + 1, req, None)))
         /\ resp' = Response(200, "", "Config queued for upload")

\* POST /api/service/upload of src/upload.js and src/unnamed/part_000, for a
\* request of reqs.
PostRouter(reqs) ==
    /\ NoMicrotask
    /\ endpoint = "router"
    /\ \E req \in reqs :
        /\ AnswerRouter(req, RouteRouter(webhook, req))
        /\ lastReq' = req
    /\ lastOp' = "upload"
    /\ UNCHANGED storageVars
    /\ UNCHANGED componentVars
    /\ UNCHANGED <<variant, endpoint, webhook, pending, call>>

UploadRouter == Admitted < MaxJobs /\ PostRouter(Requests)

MaxClock == 1

DigitChars == <<"0", "1", "2", "3", "4", "5", "6", "7", "8", "9">>

RECURSIVE ToDecimal(_)

\* Number.prototype.toString of a non-negative integer.
ToDecimal(n) ==
    IF n < 10
    THEN <<DigitChars[n + 1]>>
    ELSE Append(ToDecimal(n \div 10), DigitChars[(n % 10) + 1])

\* The server handler answers v to req: an error, or it suspends in the
\* storage upload with configId = Date.now().toString().
AnswerServer(req, v, now) ==
    IF v.status # 200
    THEN /\ resp' = v
         /\ UNCHANGED pending
    ELSE /\ pending' = Append(pending, [req |-> req, configId |-> ToDecimal(now)])
         /\ UNCHANGED resp

\* POST /api/service/upload of src/unnamed/part_002, up to the storage
\* upload, for a request of reqs.
PostServer(reqs) ==
    /\ NoMicrotask
    /\ endpoint = "server"
    /\ Len(pending) < MaxPending
    /\ \E req \in reqs, now \in 1..MaxClock :
        /\ AnswerServer(req, RouteServer(webhook, req), now)
        /\ lastReq' = req
    /\ lastOp' = "upload"
    /\ UNCHANGED storageVars
    /\ UNCHANGED componentVars
    /\ UNCHANGED <<variant, endpoint, webhook, queue, processing, consumers, drains, enqueued,
                   delivered, outcome, addedIn, deliveredBy, sent, call>>

UploadServer == Admitted < MaxJobs /\ PostServer(Requests)

\* How the storage upload can end: the file was stored, the request
\* failed on the network, the answer had a non-success status, or its body
\* was not JSON.
StorageOutcomes == {"stored", "network", "status", "body"}

\* POST /api/upload/:type of the storage server: multer's disk storage keeps
\* the file under its original name and the answer names it.
StoreFile(file) == [success |-> TRUE, filename |-> file.originalname]

\* The configId of the job: the handler's own, none in the fallback.
JobConfigId(p, r) == IF r = "stored" THEN Some(p.configId) ELSE None

\* Mutant: the catch block answers with the storage error.
StorageErrorSurfaced(r) ==
    IF r = "stored"
    THEN Response(200, "", "Config uploaded to storage and queued for Discord")
    ELSE Response(500, "Failed to process upload", "")

\* res.json({ success: true, ... }) of the try block and of the catch block.
StorageAnswer(r) ==
    IF r = "stored"
    THEN Response(200, "", "Config uploaded to storage and queued for Discord")
    ELSE Response(200, "", "Config queued for Discord upload (storage API unavailable)")

\* The storage upload of a suspended request settles; the handler enqueues
\* the job either way and answers.
StorageDone ==
    /\ NoMicrotask
    /\ \E i \in 1..Len(pending), r \in StorageOutcomes :
        /\ r = "stored" => healthy
        /\ SetQState(AddJob(QState, MakeJob(Len(enqueued) + 1, pending[i].req,
                                            JobConfigId(pending[i], r))))
        /\ pending' = SubSeq(pending, 1, i - 1) \o SubSeq(pending, i + 1, Len(pending))
        /\ lastReq' = pending[i].req
        /\ resp' = StorageAnswer(r)
        /\ lastOp' = IF r = "stored" THEN "storage" ELSE "storageFailed"
    /\ UNCHANGED storageVars
    /\ UNCHANGED componentVars
    /\ UNCHANGED <<variant, endpoint, webhook, call>>

Next ==
    \/ Add
    \/ ProcessQueueCall
    \/ FetchDone
    \/ Resume
    \/ TimerFire
    \/ UploadRouter
    \/ UploadServer
    \/ StorageDone

Spec == Init /\ [][Next]_vars

(***************************************************************************)
(* The queue object alone, driven by add() calls.  The event loop runs     *)
(* every callback that is ready: a settled fetch, a queued microtask, an   *)
(* expired timer.                                                          *)
(***************************************************************************)
InitQueue == Init /\ endpoint = "router"

NextQueue ==
    \/ Add
    \/ FetchDone
    \/ Resume
    \/ TimerFire

FairSpec ==
    /\ InitQueue
    /\ [][NextQueue]_vars
    /\ WF_vars(FetchDone)
    /\ WF_vars(Resume)
    /\ WF_vars(TimerFire)

(***************************************************************************)
(* The upload endpoint on its own: requests of every shape until one is    *)
(* admitted, and the delivery that follows.                                *)
(***************************************************************************)
MixedIni == <<"b", ".", "I", "n", "i">>
LongContent(n) == [i \in 1..n |-> "x"]

FileChoices ==
    { None,
      Some(File(CfgIni, 100)), Some(File(UpperIni, 100)), Some(File(MixedIni, 100)),
      Some(File(ATxt, 100)), Some(File(ATxt, MaxFileSize + 1)),
      Some(File(CfgIni, MaxFileSize)), Some(File(CfgIni, MaxFileSize + 1)),
      Some(File(CfgIni, MulterLimit)), Some(File(CfgIni, MulterLimit + 1)) }

ContentChoices ==
    { None, Some(Hello),
      Some(LongContent(MaxContentLength)), Some(LongContent(MaxContentLength + 1)) }

NullEmbed == <<"n", "u", "l", "l">>

EmbedChoices ==
    { None, Some(<<>>), Some(OneEmbed), Some(SpacedEmbed), Some(NoEmbeds), Some(TwoEmbeds),
      Some(ObjectEmbed), Some(NullEmbed), Some(NotJson) }

AllRequests ==
    { Request(f, c, e) : f \in FileChoices, c \in ContentChoices, e \in EmbedChoices }

AdmitRouter == Admitted = 0 /\ PostRouter(AllRequests)
AdmitServer == Admitted = 0 /\ PostServer(AllRequests)

NextAdmit ==
    \/ AdmitRouter
    \/ AdmitServer
    \/ StorageDone
    \/ FetchDone
    \/ TimerFire

SpecAdmit == Init /\ [][NextAdmit]_vars

(***************************************************************************)
(* The Storage Service and the two availability flags: storageApiAvailable *)
(* of the server module, written by storageApi() and                       *)
(* ensureStorageAccess(), and ConfigStorage.isAvailable, written by        *)
(* checkHealth().                                                          *)
(***************************************************************************)
programVars ==
    <<variant, endpoint, webhook, queue, processing, consumers, drains, enqueued, delivered,
      outcome, addedIn, deliveredBy, sent, pending, resp, lastReq, call>>

\* The Storage Service goes down or comes back.
HealthChange ==
    /\ healthy' = ~healthy
    /\ lastOp' = "health"
    /\ UNCHANGED <<storageApiAvailable, isAvailable, inflight>>
    /\ UNCHANGED programVars
    /\ UNCHANGED componentVars

\* Attempt i of a storageApi() call settles: a success sets the flag and
\* ends the call, the last failure clears the flag and ends the call, an
\* earlier failure is retried after the backoff.  next = Retries: call over.
AttemptSettled(flag, i, ok) ==
    IF ok THEN [flag |-> TRUE, next |-> Retries]
    ELSE IF i = Retries - 1 THEN [flag |-> FALSE, next |-> Retries]
    ELSE [flag |-> flag, next |-> i + 1]

EnsureLabel(a, ok) ==
    IF ok THEN "ensureOk" ELSE IF a.next = Retries THEN "ensureFailed" ELSE "ensureRetry"

\* ensureStorageAccess(), called once when the server module loads: an
\* attempt of its storageApi('GET', '/health') settles.
EnsureSettles(a) ==
    /\ storageApiAvailable' = a.flag
    /\ inflight' = [inflight EXCEPT !.ensure = a.next]
    /\ lastOp' = EnsureLabel(a, healthy)

EnsureStorageAccess ==
    /\ inflight.ensure < Retries
    /\ EnsureSettles(AttemptSettled(storageApiAvailable, inflight.ensure, healthy))
    /\ UNCHANGED <<isAvailable, healthy>>
    /\ UNCHANGED programVars
    /\ UNCHANGED componentVars

\* GET /api/load-config calls storageApi('GET', '/api/file/config/<id>'):
\* with the flag down it throws before any request is made.
LoadConfig ==
    /\ inflight.load = Retries
    /\ inflight' = IF storageApiAvailable THEN [inflight EXCEPT !.load = 0] ELSE inflight
    /\ lastOp' = "loadConfig"
    /\ UNCHANGED <<storageApiAvailable, isAvailable, healthy>>
    /\ UNCHANGED programVars
    /\ UNCHANGED componentVars

LoadSettles(a) ==
    /\ storageApiAvailable' = a.flag
    /\ inflight' = [inflight EXCEPT !.load = a.next]

\* An attempt of that storageApi() call settles.
LoadConfigDone ==
    /\ inflight.load < Retries
    /\ \E ok \in BOOLEAN :
        /\ ok => healthy
        /\ LoadSettles(AttemptSettled(storageApiAvailable, inflight.load, ok))
    /\ lastOp' = "loadDone"
    /\ UNCHANGED <<isAvailable, healthy>>
    /\ UNCHANGED programVars
    /\ UNCHANGED componentVars

\* setInterval(() => this.checkHealth(), 30000): the request of the
\* previous run, which times out after 5 seconds, has settled.
CheckHealthTick ==
    /\ ~inflight.check
    /\ inflight' = [inflight EXCEPT !.check = TRUE]
    /\ lastOp' = "tick"
    /\ UNCHANGED <<storageApiAvailable, isAvailable, healthy>>
    /\ UNCHANGED programVars
    /\ UNCHANGED componentVars

\* What the request to /health can give.
ProbeOutcomes(up) == IF up THEN {"probeOk"} ELSE {"probeNonOk", "probeError"}

\* this.isAvailable = response.ok, and false in the catch block.
AfterProbe(r) == r = "probeOk"

\* checkHealth(): its request settles.
CheckHealthDone ==
    /\ inflight.check
    /\ \E r \in ProbeOutcomes(healthy) :
        /\ isAvailable' = AfterProbe(r)
        /\ lastOp' = r
    /\ inflight' = [inflight EXCEPT !.check = FALSE]
    /\ UNCHANGED <<storageApiAvailable, healthy>>
    /\ UNCHANGED programVars
    /\ UNCHANGED componentVars

NextProbe ==
    \/ HealthChange
    \/ EnsureStorageAccess
    \/ LoadConfig
    \/ LoadConfigDone
    \/ CheckHealthTick
    \/ CheckHealthDone

InitStorage == Init /\ endpoint = "server" /\ webhook

\* The flags alone; every request under way settles and the interval timer
\* keeps firing.
FairSpecProbe ==
    /\ InitStorage
    /\ [][NextProbe]_vars
    /\ WF_vars(EnsureStorageAccess)
    /\ WF_vars(LoadConfigDone)
    /\ WF_vars(CheckHealthTick)
    /\ WF_vars(CheckHealthDone)

\* The server's upload handler next to the flags: one admitted request.
StoreOne == Admitted = 0 /\ PostServer(Requests)

NextStorage ==
    \/ NextProbe
    \/ StoreOne
    \/ StorageDone
    \/ FetchDone
    \/ TimerFire

SpecStorage == InitStorage /\ [][NextStorage]_vars

(***************************************************************************)
(* processUpload() on its own: one call per behaviour, the argument drawn  *)
(* from AllJobs.                                                           *)
(***************************************************************************)
InitCall ==
    /\ variant \in Variants
    /\ endpoint = "router"
    /\ webhook \in BOOLEAN
    /\ queue = <<>>
    /\ processing = FALSE
    /\ consumers = {}
    /\ drains = 0
    /\ enqueued = <<>>
    /\ delivered = <<>>
    /\ outcome = <<>>
    /\ addedIn = <<>>
    /\ deliveredBy = <<>>
    /\ sent = NoRequest
    /\ pending = <<>>
    /\ resp = NoResponse
    /\ lastReq = Request(None, None, None)
    /\ call \in {[NoCall EXCEPT !.job = j] : j \in AllJobs}
    /\ storageApiAvailable = FALSE
    /\ isAvailable = FALSE
    /\ healthy = TRUE
    /\ inflight = Started
    /\ ComponentsInit
    /\ lastOp = "init"

Returned(c, r) == [c EXCEPT !.done = TRUE, !.threw = r.threw, !.request = r.request]

CallProcessUpload ==
    /\ ~call.done
    /\ call' = Returned(call, ProcessUpload(variant, webhook, call.job))
    /\ lastOp' = "processUpload"
    /\ UNCHANGED storageVars
    /\ UNCHANGED componentVars
    /\ UNCHANGED <<variant, endpoint, webhook, queue, processing, consumers, drains, enqueued,
                   delivered, outcome, addedIn, deliveredBy, sent, pending, resp, lastReq>>

NextCall == CallProcessUpload

SpecCall == InitCall /\ [][NextCall]_vars

(***************************************************************************)
(* Properties of the upload queue.                                         *)
(***************************************************************************)
Ids(q) == [i \in 1..Len(q) |-> q[i].id]
Elems(seq) == {seq[i] : i \in 1..Len(seq)}
Failed(i) == outcome[i] \in {"failed", "config"}
AddStep == Len(enqueued') = Len(enqueued) + 1
Pausing == \E c \in consumers : c.pc = "timer"

\* C1: the jobs handed to processUpload, followed by the jobs still queued,
\* are the jobs passed to add() in call order: delivery is FIFO, whatever
\* the outcome of earlier deliveries.
C1_Fifo == delivered \o Ids(queue) = enqueued

\* C1 witness: three jobs were delivered, the first attempt failed, and the
\* last one was enqueued while the consumer was already running.
C1_Witness ==
    /\ Len(delivered) = 3
    /\ outcome[1] = "failed"
    /\ \E c \in consumers : c.job.id = 3 /\ c.drain = 1

\* C2: at most one consumer continuation exists and at most one
\* processUpload call is open, the flag is set while one exists, and a
\* processQueue() call made while the flag is set changes nothing.
C2_SingleFlight ==
    /\ [](/\ Cardinality(consumers) <= 1
          /\ Cardinality({i \in 1..Len(outcome) : outcome[i] = ""}) <= 1
          /\ (consumers # {} => processing))
    /\ [][(processing /\ lastOp' = "processQueue")
            => UNCHANGED <<queue, processing, consumers, drains, delivered, sent>>]_vars

\* C2 witness: add() returned twice while the only consumer was suspended
\* in its network call.
C2_Witness ==
    /\ lastOp = "add"
    /\ Len(queue) = 2
    /\ \E c \in consumers : c.pc = "fetch"
    /\ drains = 1

\* C3: under the event loop's fairness every enqueued job is eventually
\* handed to processUpload, also behind a delivery that failed.
C3_EventuallyDelivered ==
    \A j \in 1..MaxJobs : (j \in Elems(enqueued)) ~> (j \in Elems(delivered))

\* C3 witness: a delivery failed at the webhook and the job queued behind it
\* was attempted by the same loop.
C3_Witness ==
    \E i \in 1..Len(delivered) :
        /\ i < Len(delivered)
        /\ outcome[i] = "failed"
        /\ deliveredBy[i + 1] = deliveredBy[i]

\* C4: no job is handed to processUpload twice, and a job whose attempt
\* failed is not back in the queue.
C4_AtMostOnce ==
    /\ \A i, k \in 1..Len(delivered) : delivered[i] = delivered[k] => i = k
    /\ \A i \in 1..Len(delivered) : delivered[i] \notin Elems(Ids(queue))

\* C4 witness: the second of three attempts failed and the loop went on
\* with the third job.
C4_Witness ==
    /\ Len(delivered) = 3
    /\ Failed(2)
    /\ outcome[3] = "ok"

\* C5: a non-empty queue has a busy flag and a live consumer; the flag is
\* cleared only on an empty queue; an add() on an idle queue starts a new
\* drain that hands the new job to processUpload.
C5_Restartable ==
    /\ [](Len(queue) > 0 => (processing /\ consumers # {}))
    /\ [][(processing /\ ~processing') => (queue = <<>> /\ queue' = <<>>)]_vars
    /\ [][(~processing /\ AddStep)
            => /\ drains' = drains + 1
               /\ processing' \/ ~webhook
               /\ delivered' = Append(delivered, enqueued'[Len(enqueued')])
               /\ deliveredBy' = Append(deliveredBy, drains')]_vars

\* C5 witness: the first drain ended, and a second one delivered a job
\* enqueued after that.
C5_Witness ==
    /\ drains = 2
    /\ Len(delivered) >= 2
    /\ deliveredBy[Len(deliveredBy)] = 2
    /\ outcome[Len(outcome)] = "ok"

\* C6: in the paced definitions an add() during the pause appends the job
\* at the tail and returns with the timer still armed and no new drain; the
\* job is delivered, in turn, by the drain that was pausing.
C6_AddDuringPause ==
    /\ [][(Pausing /\ AddStep)
            => /\ queue' = Append(queue, queue'[Len(queue')])
               /\ queue'[Len(queue')].id = enqueued'[Len(enqueued')]
               /\ consumers' = consumers
               /\ drains' = drains
               /\ delivered' = delivered
               /\ processing']_vars
    /\ [](\A i \in 1..Len(delivered) :
            addedIn[delivered[i]] # 0 => deliveredBy[i] = addedIn[delivered[i]])
    /\ \A j \in 1..MaxJobs :
         (j \in Elems(enqueued) /\ addedIn[j] # 0) ~> (j \in Elems(delivered))

\* C6 witness: a job that add() appended during a pause, behind another
\* waiting job, has been handed to processUpload.
C6_Witness ==
    \E i \in 2..Len(delivered) :
        /\ addedIn[delivered[i]] # 0
        /\ addedIn[delivered[i - 1]] # 0
        /\ Paced(variant)

\* C10: with CLOUD_WEBHOOK unset every request to the upload endpoint is
\* answered 500 with an error body and leaves the queue as it was; no
\* request ever waits at the storage upload.
C10_UnconfiguredWebhook ==
    /\ [](~webhook => pending = <<>>)
    /\ [][(~webhook /\ lastOp' = "upload")
            => /\ resp'.status = 500
               /\ resp'.error # ""
               /\ UNCHANGED <<queue, enqueued, delivered, pending, consumers>>]_vars

\* C10 witness: the endpoint answered 500 "Webhook not configured" while
\* jobs of other callers were in the queue.
C10_Witness ==
    /\ ~webhook
    /\ lastOp = "upload"
    /\ resp = Response(500, "Webhook not configured", "")
    /\ Len(enqueued) > 0

(***************************************************************************)
(* Properties of processUpload.                                            *)
(***************************************************************************)
IsContentPart(p) == p.kind = "text" /\ p.name = "content"

\* The content strings a request carries, in order: the content fields of a
\* multipart body, the content of a JSON body or of payload_json.
ContentFields(req) ==
    LET texts == SelectSeq(req.parts, IsContentPart)
    IN  [i \in 1..Len(texts) |-> texts[i].value]
        \o (IF req.type = "json" \/ \E i \in 1..Len(req.parts) : req.parts[i].kind = "json"
            THEN <<req.payload.content>>
            ELSE <<>>)

Returned200 == call.done /\ ~call.threw
HasFileName(job) == IsSome(job.file) /\ Len(Val(job.file).originalname) > 0

\* The default notification string of a job.
ExpectedDefault(job) ==
    DefaultPrefix \o (IF HasFileName(job) THEN Val(job.file).originalname ELSE ConfigIni)

\* C7, as stated: the content sent is never empty, it is the default string
\* (with the file's name) when the job's content is absent or empty, and the
\* job's content itself otherwise.
C7_ContentAsGiven ==
    Returned200 =>
        LET fields == ContentFields(call.request)
            c == call.job.content
        IN  /\ Len(fields) >= 1
            /\ \A i \in 1..Len(fields) : Len(fields[i]) > 0
            /\ (~IsSome(c) \/ Val(c) = <<>>) =>
                    /\ fields[1] = ExpectedDefault(call.job)
                    /\ IsSome(call.job.file) =>
                            Contains(fields[1], Val(call.job.file).originalname)
            /\ (IsSome(c) /\ Val(c) # <<>>) => fields[1] = Val(c)

\* C7, amended: every content string sent is non-empty.  The form-data and
\* manual definitions send the job's content with the white space at both
\* ends removed, and the default string (with the file's name) when the
\* content is absent or nothing but white space; the payload_json definition
\* sends a non-empty content as it is and the default string otherwise.
C7_ContentNormalised ==
    Returned200 =>
        LET fields == ContentFields(call.request)
            c == call.job.content
            kept == IF ~IsSome(c) THEN <<>>
                    ELSE IF variant = "payload_json" THEN Val(c)
                    ELSE Trim(Val(c))
        IN  /\ Len(fields) >= 1
            /\ \A i \in 1..Len(fields) : Len(fields[i]) > 0
            /\ kept # <<>> => fields[1] = kept
            /\ kept = <<>> =>
                    /\ fields[1] = ExpectedDefault(call.job)
                    /\ IsSome(call.job.file) =>
                            Contains(fields[1], Val(call.job.file).originalname)

\* C7 witness: the form-data definition sent the content " hi " of a job
\* with a file as "hi".
C7_Witness ==
    /\ Returned200
    /\ variant = "formdata"
    /\ call.job.content = Some(PaddedHi)
    /\ IsSome(call.job.file)
    /\ ContentFields(call.request)[1] = <<"h", "i">>

\* C8, as stated: a job with a file goes out as multipart with the file and
\* a text field, a job without a file goes out as JSON with the content and,
\* when the embeds parse, the embeds.
C8_FormatByFile ==
    Returned200 =>
        LET req == call.request
            job == call.job
        IN  IF IsSome(job.file)
            THEN /\ req.type = "multipart"
                 /\ \E i \in 1..Len(req.parts) :
                        req.parts[i].kind = "file" /\ req.parts[i].data = Val(job.file).buffer
                 /\ Len(ContentFields(req)) >= 1
            ELSE /\ req.type = "json"
                 /\ Len(req.payload.content) > 0
                 /\ IsSome(ParsedEmbeds(job)) => req.payload.embeds = ParsedEmbeds(job)

\* C9, as stated: with a file and embeds the request is multipart, holds the
\* file and exactly one content field, which carries the normalised content
\* and the serialised embeds, and nothing else carries the embeds.
C9_EmbedFolded ==
    (Returned200 /\ IsSome(call.job.file) /\ IsSome(ParsedEmbeds(call.job))) =>
        LET req == call.request
            texts == SelectSeq(req.parts, IsContentPart)
        IN  /\ req.type = "multipart"
            /\ \E i \in 1..Len(req.parts) : req.parts[i].kind = "file"
            /\ Len(texts) = 1
            /\ Contains(texts[1].value, FinalContent(call.job))
            /\ Contains(texts[1].value, JsonStringify(Val(ParsedEmbeds(call.job))))
            /\ \A i \in 1..Len(req.parts) :
                    req.parts[i].kind = "file" \/ IsContentPart(req.parts[i])
            /\ req.payload.embeds = None

(***************************************************************************)
(* Properties of the upload endpoint's validation.  In the state after an  *)
(* upload step lastReq is the request the step handled; a step that        *)
(* leaves enqueued and pending alone rejected it, and resp is its answer.  *)
(***************************************************************************)
\* The handler's checks run: the multipart middleware passed the request on
\* and CLOUD_WEBHOOK is set.
ReachesValidation(r) ==
    webhook /\ ~(IsSome(r.file) /\ Val(r.file).size > MulterLimit)

\* The name ends in ".ini" in some mix of upper and lower case.
EndsInIni(name) ==
    /\ Len(name) >= 4
    /\ name[Len(name) - 3] = "."
    /\ name[Len(name) - 2] \in {"i", "I"}
    /\ name[Len(name) - 1] \in {"n", "N"}
    /\ name[Len(name)] \in {"i", "I"}

NothingAdmitted == UNCHANGED <<queue, enqueued, pending, delivered, sent, consumers>>

\* The step admitted its request: the router enqueued a job for it, the
\* server handler went on to the storage upload with it.
AdmittedNow ==
    \/ /\ endpoint = "router"
       /\ enqueued' = Append(enqueued, Len(enqueued) + 1)
       /\ resp'.status = 200
    \/ /\ endpoint = "server"
       /\ Len(pending') = Len(pending) + 1
       /\ pending'[Len(pending')].req = lastReq'

PlainUpload(name) == Request(Some(File(name, 100)), None, None)

\* C11: an upload whose file name does not end in ".ini", whatever the case
\* of the letters, is never admitted and leaves the queue as it was; the
\* answer is 400 whenever the handler's checks run.  A file named "a.INI" or
\* "b.Ini" is admitted.
C11_IniOnly ==
    /\ [][(lastOp' = "upload" /\ IsSome(lastReq'.file)
           /\ ~EndsInIni(Val(lastReq'.file).originalname))
            => /\ NothingAdmitted
               /\ resp'.status # 200
               /\ ReachesValidation(lastReq') => resp'.status = 400]_vars
    /\ [][(lastOp' = "upload" /\ webhook
           /\ lastReq' \in {PlainUpload(UpperIni), PlainUpload(MixedIni)})
            => AdmittedNow]_vars

\* C11 witness: "a.txt" was answered 400 with the file type error and
\* nothing was queued.
C11_Witness ==
    /\ lastOp = "upload"
    /\ IsSome(lastReq.file)
    /\ Val(lastReq.file).originalname = ATxt
    /\ resp.status = 400
    /\ resp.error \in {"Only .ini files are allowed", "Invalid file type"}
    /\ enqueued = <<>>
    /\ pending = <<>>

TooLargeErrors == {"File too large", "File size exceeds limit"}

\* C12: an upload of a .ini file larger than 1 MiB (1,048,576 bytes) to a
\* configured endpoint is answered 400 "file too large", enqueues no job
\* and hands nothing to the webhook; a file of exactly 1,048,576 bytes is
\* admitted.
C12_FileTooLarge ==
    /\ [][(lastOp' = "upload" /\ webhook /\ IsSome(lastReq'.file)
           /\ EndsInIni(Val(lastReq'.file).originalname)
           /\ Val(lastReq'.file).size > 1048576)
            => /\ NothingAdmitted
               /\ resp'.status = 400
               /\ resp'.error \in TooLargeErrors]_vars
    /\ [][(lastOp' = "upload" /\ webhook
           /\ lastReq' = Request(Some(File(CfgIni, 1048576)), None, None))
            => AdmittedNow]_vars

ContentErrors == {"Content too long", "Content exceeds Discord character limit"}

\* A .ini file of at most 1 MiB.
GoodFile(f) ==
    IsSome(f) /\ EndsInIni(Val(f).originalname) /\ Val(f).size <= 1048576

\* C13: an upload whose content is longer than 2000 characters is never
\* admitted and leaves the queue as it was; the answer is 400 whenever the
\* handler's checks run, with the content error when the file passed its
\* checks.  Content of exactly 2000 characters is admitted.
C13_ContentLimit ==
    /\ [][(lastOp' = "upload" /\ IsSome(lastReq'.content)
           /\ Len(Val(lastReq'.content)) > 2000)
            => /\ NothingAdmitted
               /\ resp'.status # 200
               /\ ReachesValidation(lastReq') => resp'.status = 400
               /\ (webhook /\ GoodFile(lastReq'.file)) => resp'.error \in ContentErrors]_vars
    /\ [][(lastOp' = "upload" /\ webhook /\ GoodFile(lastReq'.file)
           /\ IsSome(lastReq'.content) /\ Len(Val(lastReq'.content)) = 2000
           /\ lastReq'.embeds = None)
            => AdmittedNow]_vars

\* C13 witness: content of 2001 characters, sent with a good file, was
\* answered 400 with the content error and nothing was queued.
C13_Witness ==
    /\ lastOp = "upload"
    /\ IsSome(lastReq.content)
    /\ Len(Val(lastReq.content)) = 2001
    /\ GoodFile(lastReq.file)
    /\ resp.status = 400
    /\ resp.error \in ContentErrors
    /\ enqueued = <<>>
    /\ pending = <<>>

EmbedErrors == {"Invalid embeds format", "Too many embeds", "Invalid embeds JSON"}

\* Embed strings that are not a JSON array of at most one element: two
\* elements, an object, null, not JSON at all.
BadEmbeds == {TwoEmbeds, ObjectEmbed, NullEmbed, NotJson}

\* JSON arrays of no or one element.
GoodEmbeds == {NoEmbeds, OneEmbed, SpacedEmbed}

JobsInHand == Elems(queue) \cup {c.job : c \in consumers}

\* C15: an upload without a file, with content of at most 2000 characters
\* and/or an embed array of at most one element, is answered 200 with a
\* message and adds exactly one job, which has no file.
C15_FileOptional ==
    [][(lastOp' = "upload" /\ webhook /\ lastReq'.file = None
        /\ (lastReq'.content = None \/ Len(Val(lastReq'.content)) <= 2000)
        /\ (lastReq'.embeds = None \/ Val(lastReq'.embeds) \in GoodEmbeds)
        /\ (IsSome(lastReq'.content) \/ IsSome(lastReq'.embeds)))
         => /\ resp'.status = 200
            /\ resp'.message # ""
            /\ enqueued' = Append(enqueued, Len(enqueued) + 1)
            /\ \E j \in JobsInHand' : j.id = Len(enqueued') /\ j.file = None]_vars

(***************************************************************************)
(* Properties of admission and of the storage upload.                      *)
(***************************************************************************)
\* The endpoint admitted a job in this step and answered its caller: the
\* router after add(), the server handler after the storage upload and add().
AnswersAdmission ==
    /\ lastOp' \in {"upload", "storage", "storageFailed"}
    /\ Len(enqueued') = Len(enqueued) + 1

DeliveryStep == lastOp' \in {"fetchDone", "resume", "timer"}

\* C16 as stated: the caller of an admitted job is answered 200 before the
\* job is handed to processUpload(), and no step of a delivery touches the
\* answer.
C16_AnsweredBeforeAttempt ==
    /\ [][AnswersAdmission
            => /\ resp'.status = 200
               /\ Len(enqueued') \notin Elems(delivered')]_vars
    /\ [][DeliveryStep => resp' = resp]_vars

\* C16 amended: the caller of an admitted job is answered 200 before the
\* delivery of the job has an outcome (on an idle queue add() has already
\* started the delivery), and no step of a delivery, successful or failed,
\* touches the answer.
C16_AnsweredBeforeOutcome ==
    /\ [][AnswersAdmission
            => /\ resp'.status = 200
               /\ resp'.error = ""
               /\ \A i \in 1..Len(delivered') :
                    delivered'[i] = Len(enqueued') => outcome'[i] = ""]_vars
    /\ [][DeliveryStep => resp' = resp]_vars

\* C16 witness: the only job came through the endpoint, its delivery failed,
\* and the answer its caller got is still the 200.
C16_Witness ==
    /\ lastOp = "fetchDone"
    /\ enqueued = <<1>>
    /\ delivered = <<1>>
    /\ outcome = <<"failed">>
    /\ resp.status = 200
    /\ resp.message # ""

\* C17: when the storage upload fails (network error, non-success status,
\* unreadable body) the handler enqueues exactly one job, for the file of
\* the request and with no configId, and answers its caller 200 without an
\* error.
C17_StorageFailureSwallowed ==
    [][lastOp' = "storageFailed"
        => /\ Len(pending') = Len(pending) - 1
           /\ enqueued' = Append(enqueued, Len(enqueued) + 1)
           /\ \E j \in JobsInHand' :
                /\ j.id = Len(enqueued')
                /\ j.configId = None
                /\ j.file = lastReq'.file
           /\ resp'.status = 200
           /\ resp'.error = ""]_vars

\* C17 witness: a storage upload failed, the caller was answered 200 and
\* the job, without configId, was handed to the webhook.
C17_Witness ==
    /\ lastOp = "storageFailed"
    /\ resp.status = 200
    /\ enqueued = <<1>>
    /\ delivered = <<1>>
    /\ \E c \in consumers : c.job.id = 1 /\ c.job.configId = None /\ IsSome(c.job.file)

\* A request that passes every check of the server handler.
Acceptable(r) ==
    /\ GoodFile(r.file)
    /\ r.content = None \/ Len(Val(r.content)) <= 2000
    /\ r.embeds = None \/ Val(r.embeds) \in GoodEmbeds

\* C18: while the flag reports the Storage Service unavailable no upload
\* sends a request to its store endpoint; an acceptable upload goes
\* straight to the fallback, which enqueues its job without configId.
C18_ShortCircuit ==
    [][(lastOp' = "upload" /\ ~storageApiAvailable)
        => /\ pending' = pending
           /\ Acceptable(lastReq')
                => /\ enqueued' = Append(enqueued, Len(enqueued) + 1)
                   /\ \E j \in JobsInHand' : j.id = Len(enqueued') /\ j.configId = None]_vars

\* C19: when the storage upload succeeds the handler enqueues exactly one
\* job, and its configId is the identifier the Storage Service answered
\* with, under which the stored file can be fetched again.
C19_ConfigIdFromStorage ==
    [][lastOp' = "storage"
        => /\ enqueued' = Append(enqueued, Len(enqueued) + 1)
           /\ \E j \in JobsInHand' :
                /\ j.id = Len(enqueued')
                /\ j.configId = Some(StoreFile(Val(lastReq'.file)).filename)]_vars

ProbeLabels == {"probeOk", "probeNonOk", "probeError"}
EnsureLabels == {"ensureOk", "ensureFailed"}

\* C20: either flag equals the outcome of the health probe that completed
\* last (set only by an OK answer); when the Storage Service comes back
\* and stays healthy the flags end up set, when it goes down and stays
\* down they end up cleared.
C20_FlagFollowsProbe ==
    /\ [](lastOp \in ProbeLabels => isAvailable = (lastOp = "probeOk"))
    /\ [](lastOp \in EnsureLabels => storageApiAvailable = (lastOp = "ensureOk"))
    /\ <>[]healthy => <>[](isAvailable /\ storageApiAvailable)
    /\ <>[](~healthy) => <>[](~isAvailable /\ ~storageApiAvailable)

\* The same of ConfigStorage.isAvailable alone, the flag checkHealth()
\* probes every 30 seconds.
ConfigStorageFlagFollowsProbe ==
    /\ [](lastOp \in ProbeLabels => isAvailable = (lastOp = "probeOk"))
    /\ <>[]healthy => <>[]isAvailable
    /\ <>[](~healthy) => <>[](~isAvailable)

(***************************************************************************)
(* Properties of the consumer: a missing webhook at delivery, and pacing.  *)
(***************************************************************************)
\* The position of job j in delivered, 0 while it was not handed over.
AttemptOf(j) ==
    IF j \in Elems(delivered)
    THEN CHOOSE i \in 1..Len(delivered) : delivered[i] = j
    ELSE 0

\* Job j was handed to processUpload, the call ended in the configuration
\* error, and the job is not in the queue.
DroppedForConfig(j) ==
    /\ AttemptOf(j) # 0
    /\ outcome[AttemptOf(j)] = "config"
    /\ j \notin Elems(Ids(queue))

\* C25: with CLOUD_WEBHOOK unset, processUpload throws before any request:
\* no consumer ever waits in a fetch and nothing is handed to fetch; every
\* call ends in the configuration error; and, under the event loop's
\* fairness, every enqueued job is handed over, fails that way and is gone
\* from the queue, so the loop goes on to the jobs behind it.
C25_WebhookAbsentAtDelivery ==
    /\ [](~webhook => /\ \A c \in consumers : c.pc # "fetch"
                      /\ sent = NoRequest
                      /\ \A i \in 1..Len(outcome) : outcome[i] \in {"", "config"})
    /\ \A j \in 1..MaxJobs :
         (~webhook /\ j \in Elems(enqueued)) ~> DroppedForConfig(j)

\* C25 witness: without a webhook, two jobs of one drain each ended in the
\* configuration error, the second behind the first.
C25_Witness ==
    /\ ~webhook
    /\ Len(delivered) >= 2
    /\ DroppedForConfig(delivered[1])
    /\ DroppedForConfig(delivered[2])
    /\ deliveredBy[2] = deliveredBy[1]

\* A step that hands a job to processUpload.
AttemptStep == Len(delivered') = Len(delivered) + 1

\* A step in which a processUpload() call settles, with either result.
SettleStep == lastOp' \in {"fetchDone", "resume"}

\* C26: in the paced definitions a settled attempt, ok or failed, arms the
\* timer and starts nothing; while the timer is armed the flag stays set and
\* only the timer's callback hands a job over, so a job added during the
\* pause is attempted by the step in which the timer fires (or, behind
\* other jobs, by a later firing); the timer that finds the queue empty was
\* armed with the flag set, too.
C26_PacedPause ==
    /\ [](Paced(variant) /\ Pausing => processing)
    /\ [][(Paced(variant) /\ SettleStep)
            => /\ Pausing'
               /\ processing'
               /\ delivered' = delivered
               /\ queue' = queue]_vars
    /\ [][(Paced(variant) /\ Pausing /\ AttemptStep) => lastOp' = "timer"]_vars
    /\ [][(Paced(variant) /\ Pausing /\ lastOp' = "timer" /\ Len(queue) > 0)
            => /\ delivered' = Append(delivered, queue[1].id)
               /\ ~Pausing']_vars

\* C26 witness: a paced consumer made three attempts, one failed and one
\* succeeded before the last, the last job was added during a pause and
\* handed over by the timer's callback.
C26_Witness ==
    /\ Paced(variant)
    /\ lastOp = "timer"
    /\ Len(delivered) = 3
    /\ outcome[1] = "failed"
    /\ outcome[2] = "ok"
    /\ addedIn[delivered[3]] # 0

Min(S) == CHOOSE x \in S : \A y \in S : x <= y

(***************************************************************************)
(* The storage server (src/storage-server.js).  Its state is the two       *)
(* directories /home/cayden/nemesis/config and .../media; every handler    *)
(* is synchronous, so a request is one step.  A file is its name and its   *)
(* text; a metadata file holds the JSON text that JSON.stringify wrote.    *)
(***************************************************************************)
MaxTicks == 2
MaxDownloads == 2

Str(s) == [t |-> "str", v |-> s]
Num(n) == [t |-> "num", v |-> ToDecimal(n)]
Obj(ms) == [t |-> "obj", v |-> ms]
Arr(vs) == [t |-> "arr", v |-> vs]

DigitValue(c) == CHOOSE d \in 0..9 : DigitChars[d + 1] = c

RECURSIVE FromDecimal(_)

\* The number a run of decimal digits denotes.
FromDecimal(s) ==
    IF Len(s) = 0 THEN 0
    ELSE 10 * FromDecimal(SubSeq(s, 1, Len(s) - 1)) + DigitValue(s[Len(s)])

\* obj.key of a parsed object that has the member.
Member(obj, key) ==
    obj.v[CHOOSE i \in 1..Len(obj.v) : obj.v[i][1] = key][2]

\* obj.key = val
WithMember(obj, key, val) ==
    [obj EXCEPT !.v = [i \in 1..Len(@) |-> IF @[i][1] = key THEN <<key, val>> ELSE @[i]]]

KId == <<"i", "d">>
KName == <<"n", "a", "m", "e">>
KDescription == <<"d", "e", "s", "c", "r", "i", "p", "t", "i", "o", "n">>
KAuthor == <<"a", "u", "t", "h", "o", "r">>
KTags == <<"t", "a", "g", "s">>
KFilename == <<"f", "i", "l", "e", "n", "a", "m", "e">>
KOriginalName == <<"o", "r", "i", "g", "i", "n", "a", "l", "N", "a", "m", "e">>
KSize == <<"s", "i", "z", "e">>
KUploadDate == <<"u", "p", "l", "o", "a", "d", "D", "a", "t", "e">>
KDownloadCount == <<"d", "o", "w", "n", "l", "o", "a", "d", "C", "o", "u", "n", "t">>
Anonymous == <<"A", "n", "o", "n", "y", "m", "o", "u", "s">>
MetadataSuffix == <<"_", "m", "e", "t", "a", "d", "a", "t", "a", ".", "j", "s", "o", "n">>
Undefined == <<"u", "n", "d", "e", "f", "i", "n", "e", "d">>
EpochSecond ==
    <<"1", "9", "7", "0", "-", "0", "1", "-", "0", "1", "T", "0", "0", ":", "0", "0", ":", "0", "0", ".">>

\* new Date().toISOString() within the first second of the epoch: the
\* milliseconds in three digits.
ToISOString(now) ==
    EpochSecond \o (IF now < 10 THEN <<"0", "0">> ELSE IF now < 100 THEN <<"0">> ELSE <<>>)
                \o ToDecimal(now) \o <<"Z">>

\* new Date(iso), as the milliseconds the subtraction of two dates uses.
DateOf(iso) == FromDecimal(SubSeq(iso, Len(EpochSecond) + 1, Len(iso) - 1))

\* fs.existsSync, fs.writeFileSync of a text, fs.unlinkSync.
Exists(dir, n) == n \in DOMAIN dir
Write(dir, n, text) == [m \in (DOMAIN dir) \cup {n} |-> IF m = n THEN text ELSE dir[m]]
Unlink(dir, n) == [m \in (DOMAIN dir) \ {n} |-> dir[m]]

\* An uploaded file as the client sends it.
Upload(name, text) == [originalname |-> name, size |-> Len(text), text |-> text]

\* multer.diskStorage: the destination is chosen by the name's ending, the
\* file keeps its original name, and it is written before the handler runs.
MulterDest(file) == IF EndsWith(file.originalname, IniSuffix) THEN "config" ELSE "media"

MulterDisk(d, upload) ==
    IF IsSome(upload)
    THEN [d EXCEPT ![MulterDest(Val(upload))] =
            Write(@, Val(upload).originalname, Val(upload).text)]
    ELSE d

\* req.file as the disk storage leaves it: no buffer field.
DiskFile(upload) ==
    [originalname |-> upload.originalname, filename |-> upload.originalname,
     size |-> upload.size, buffer |-> None]

\* fs.writeFileSync(path, data) where data may be undefined: Node before 14
\* writes the text "undefined", Node 14 and later throws a TypeError before
\* it opens the file.
WriteFileSync(dir, n, data, rt) ==
    IF IsSome(data) THEN [threw |-> FALSE, dir |-> Write(dir, n, Val(data))]
    ELSE IF rt = "coerces" THEN [threw |-> FALSE, dir |-> Write(dir, n, Undefined)]
    ELSE [threw |-> TRUE, dir |-> dir]

\* The runtime is one or the other from the first such call on.
Runtimes(rt) == IF rt = "unseen" THEN {"coerces", "throws"} ELSE {rt}

\* String.prototype.replace(pat, with): the first occurrence only.
ReplaceFirst(s, pat, with) ==
    LET at == {i \in 1..(Len(s) - Len(pat) + 1) : SubSeq(s, i, i + Len(pat) - 1) = pat}
    IN  IF at = {} THEN s
        ELSE SubSeq(s, 1, Min(at) - 1) \o with \o SubSeq(s, Min(at) + Len(pat), Len(s))

\* a || b on strings.
OrElse(o, d) == IF IsSome(o) /\ Len(Val(o)) > 0 THEN Val(o) ELSE d

MetadataName(id) == id \o MetadataSuffix
ConfigFileName(id, file) == id \o <<"_">> \o file.originalname

\* The metadata object of POST /api/store-config; the body gave a name or
\* not, and no description, author or tags.
Metadata(id, file, body, now) ==
    Obj(<< <<KId, Str(id)>>,
           <<KName, Str(OrElse(body.name, ReplaceFirst(file.originalname, IniSuffix, <<>>)))>>,
           <<KDescription, Str(<<>>)>>,
           <<KAuthor, Str(Anonymous)>>,
           <<KTags, Arr(<<>>)>>,
           <<KFilename, Str(ConfigFileName(id, file))>>,
           <<KOriginalName, Str(file.originalname)>>,
           <<KSize, Num(file.size)>>,
           <<KUploadDate, Str(ToISOString(now))>>,
           <<KDownloadCount, Num(0)>> >>)

Served(d, a) == [disk |-> d, answer |-> a]

\* The metadata file is written and the handler answers.
StoreMetadata(d, dir, id, md) ==
    Served([d EXCEPT !.config = Write(dir, MetadataName(id), JsonStringify(md))],
           Answer(200, "", <<Str(id), Member(md, KFilename), md>>))

\* After fs.writeFileSync(configPath, req.file.buffer), whose result is w.
StoreWritten(d, w, id, md) ==
    IF w.threw
    THEN Served(d, Answer(500, "The data argument must be of type string or Buffer", <<>>))
    ELSE StoreMetadata(d, w.dir, id, md)

\* The handler of POST /api/store-config on the disk d that multer left.
StoreConfigHandler(d, file, body, now, rt) ==
    IF ~IsSome(file)
    THEN Served(d, Answer(400, "No config file uploaded", <<>>))
    ELSE IF ~EndsWith(ToLowerCase(Val(file).originalname), IniSuffix)
    THEN Served(d, Answer(400, "Only .ini files are allowed", <<>>))
    ELSE StoreWritten(d,
            WriteFileSync(d.config, ConfigFileName(ToDecimal(now), Val(file)),
                          Val(file).buffer, rt),
            ToDecimal(now),
            Metadata(ToDecimal(now), Val(file), body, now))

\* app.post('/api/store-config', upload.single('file'), handler)
StoreConfigRoute(d, upload, body, now, rt) ==
    StoreConfigHandler(MulterDisk(d, upload),
                       IF IsSome(upload) THEN Some(DiskFile(Val(upload))) ELSE None,
                       body, now, rt)

\* Mutant: the count is left as it was read.
DownloadUncounted(md) == md

\* metadata.downloadCount++
CountDownload(md) ==
    WithMember(md, KDownloadCount, Num(FromDecimal(Member(md, KDownloadCount).v) + 1))

\* The counted metadata is written back and the config is sent: with its
\* metadata, or the text alone.
SendConfig(d, id, md, text, full) ==
    Served([d EXCEPT !.config = Write(@, MetadataName(id), JsonStringify(md))],
           Answer(200, "", IF full THEN <<md, Str(text)>> ELSE <<Str(text)>>))

\* After JSON.parse of the metadata file gave r.
Retrieve(d, id, r, full) ==
    IF ~r.ok THEN Served(d, Answer(500, "Unexpected token", <<>>))
    ELSE IF ~Exists(d.config, Member(r.val, KFilename).v)
    THEN Served(d, Answer(404, "Config file not found", <<>>))
    ELSE SendConfig(d, id, CountDownload(r.val), d.config[Member(r.val, KFilename).v], full)

\* GET /api/config/:id (full) and GET /api/config/:id/content.
GetConfigHandler(d, id, full) ==
    IF ~Exists(d.config, MetadataName(id))
    THEN Served(d, Answer(404, "Config not found", <<>>))
    ELSE Retrieve(d, id, JsonParse(d.config[MetadataName(id)]), full)

\* The metadata files of the directory that parse, as objects.
ReadMetadata(dir) ==
    {r.val : r \in {p \in {JsonParse(dir[n]) : n \in {m \in DOMAIN dir :
                                                          EndsWith(m, MetadataSuffix)}} :
                       p.ok}}

RECURSIVE SortNewestFirst(_)

\* configs.sort((a, b) => new Date(b.uploadDate) - new Date(a.uploadDate))
SortNewestFirst(S) ==
    IF S = {} THEN <<>>
    ELSE LET newest == CHOOSE x \in S : \A y \in S :
                           DateOf(Member(x, KUploadDate).v) >= DateOf(Member(y, KUploadDate).v)
         IN  <<newest>> \o SortNewestFirst(S \ {newest})

\* GET /api/configs
ListConfigsHandler(d) == Served(d, Answer(200, "", SortNewestFirst(ReadMetadata(d.config))))

\* config.name / description / a tag includes the query, lower case.
Matches(md, q) ==
    \/ Contains(ToLowerCase(Member(md, KName).v), ToLowerCase(q))
    \/ Contains(ToLowerCase(Member(md, KDescription).v), ToLowerCase(q))
    \/ \E i \in 1..Len(Member(md, KTags).v) :
          Contains(ToLowerCase(Member(md, KTags).v[i].v), ToLowerCase(q))

\* GET /api/configs/search?q=
SearchConfigsHandler(d, q) ==
    Served(d, Answer(200, "", SortNewestFirst({md \in ReadMetadata(d.config) :
                                                  Len(q) > 0 => Matches(md, q)})))

\* Mutant: only the metadata file is unlinked.
DeleteMetadataOnly(d, id, r) ==
    IF ~r.ok THEN Served(d, Answer(500, "Unexpected token", <<>>))
    ELSE Served([d EXCEPT !.config = Unlink(@, MetadataName(id))], Answer(200, "", <<>>))

\* The config file, if it exists, and the metadata file are unlinked.
DeleteBoth(d, id, r) ==
    IF ~r.ok THEN Served(d, Answer(500, "Unexpected token", <<>>))
    ELSE Served([d EXCEPT !.config = Unlink(Unlink(@, Member(r.val, KFilename).v),
                                            MetadataName(id))],
                Answer(200, "", <<>>))

\* DELETE /api/config/:id
DeleteConfigHandler(d, id) ==
    IF ~Exists(d.config, MetadataName(id))
    THEN Served(d, Answer(404, "Config not found", <<>>))
    ELSE DeleteBoth(d, id, JsonParse(d.config[MetadataName(id)]))

\* POST /api/upload/:type
UploadFileRoute(d, upload) ==
    IF ~IsSome(upload)
    THEN Served(d, Answer(400, "No file uploaded", <<>>))
    ELSE Served(MulterDisk(d, upload), Answer(200, "", <<Str(Val(upload).originalname)>>))

\* DELETE /api/file/:type/:name
DeleteFileRoute(d, type, n) ==
    IF ~Exists(d[type], n)
    THEN Served(d, Answer(404, "File not found", <<>>))
    ELSE Served([d EXCEPT ![type] = Unlink(@, n)], Answer(200, "", <<>>))

\* The requests the model sends to the storage server.
IniText == <<"[", "a", "]">>
Uploads == {None} \cup {Some(Upload(n, IniText)) : n \in {CfgIni, UpperIni, ATxt}}
Bodies == {[name |-> None]}
ConfigIds == {ToDecimal(t) : t \in 0..MaxTicks}
Queries == {<<>>, <<"C">>}

\* The handler of store-config gets as far as writing the config file.
ReachesWrite(u) == IsSome(u) /\ EndsWith(ToLowerCase(Val(u).originalname), IniSuffix)

\* The downloadCount on disk for id, 0 where there is no metadata.
Downloads(d, id) ==
    IF Exists(d.config, MetadataName(id))
    THEN FromDecimal(Member(JsonParse(d.config[MetadataName(id)]).val, KDownloadCount).v)
    ELSE 0

Serve(r) == disk' = r.disk /\ answer' = r.answer

otherThanService == <<programVars, storageVars, apiVars, routerVars, cacheVars>>

StoreConfig ==
    /\ \E u \in Uploads, b \in Bodies, rt \in Runtimes(runtime) :
        /\ Serve(StoreConfigRoute(disk, u, b, clock, rt))
        /\ runtime' = IF ReachesWrite(u) THEN rt ELSE runtime
        /\ asked' = Asked(<<>>, u)
    /\ lastOp' = "storeConfig"
    /\ UNCHANGED clock
    /\ UNCHANGED otherThanService

GetConfig ==
    /\ \E id \in ConfigIds, full \in BOOLEAN :
        /\ Downloads(disk, id) < MaxDownloads
        /\ Serve(GetConfigHandler(disk, id, full))
        /\ asked' = Asked(id, None)
        /\ lastOp' = IF full THEN "getConfig" ELSE "getContent"
    /\ UNCHANGED <<runtime, clock>>
    /\ UNCHANGED otherThanService

ListConfigs ==
    /\ Serve(ListConfigsHandler(disk))
    /\ asked' = Asked(<<>>, None)
    /\ lastOp' = "listConfigs"
    /\ UNCHANGED <<runtime, clock>>
    /\ UNCHANGED otherThanService

SearchConfigs ==
    /\ \E q \in Queries :
        /\ Serve(SearchConfigsHandler(disk, q))
        /\ asked' = Asked(q, None)
    /\ lastOp' = "searchConfigs"
    /\ UNCHANGED <<runtime, clock>>
    /\ UNCHANGED otherThanService

DeleteConfig ==
    /\ \E id \in ConfigIds :
        /\ Serve(DeleteConfigHandler(disk, id))
        /\ asked' = Asked(id, None)
    /\ lastOp' = "deleteConfig"
    /\ UNCHANGED <<runtime, clock>>
    /\ UNCHANGED otherThanService

UploadFile ==
    /\ \E u \in Uploads :
        /\ Serve(UploadFileRoute(disk, u))
        /\ asked' = Asked(<<>>, u)
    /\ lastOp' = "uploadFile"
    /\ UNCHANGED <<runtime, clock>>
    /\ UNCHANGED otherThanService

DeleteFile ==
    /\ \E type \in {"config", "media"} :
        \E n \in (DOMAIN disk[type]) \cup {ATxt} :
            /\ Serve(DeleteFileRoute(disk, type, n))
            /\ asked' = Asked(n, None)
    /\ lastOp' = "deleteFile"
    /\ UNCHANGED <<runtime, clock>>
    /\ UNCHANGED otherThanService

\* Date.now() moves on.
ClockTick ==
    /\ clock < MaxTicks
    /\ clock' = clock + 1
    /\ lastOp' = "clockTick"
    /\ UNCHANGED <<disk, runtime, answer, asked>>
    /\ UNCHANGED otherThanService

\* The config routes.
NextService ==
    \/ StoreConfig
    \/ GetConfig
    \/ ListConfigs
    \/ SearchConfigs
    \/ DeleteConfig
    \/ ClockTick

InitService == Init /\ variant = "formdata" /\ endpoint = "router" /\ webhook

SpecService == InitService /\ [][NextService]_vars

\* The config routes next to the legacy file routes, which work on the
\* same directories.
NextFiles ==
    \/ NextService
    \/ UploadFile
    \/ DeleteFile

SpecFiles == InitService /\ [][NextFiles]_vars

(***************************************************************************)
(* Properties of the storage server.  In the state after a request,        *)
(* asked is the request and answer the response.                           *)
(***************************************************************************)
\* The upload of a store-config request carries a file named *.ini, in any
\* mix of cases.
IniUpload(u) == IsSome(u) /\ EndsInIni(Val(u).originalname)

\* C22: a store-config request whose file is not named *.ini (in any case),
\* or that has no file, is answered 400 and leaves both directories as they
\* were; a file named *.ini in any case is not turned away with 400; and no
\* request that ends in an error changes the directories.
C22_RejectedStoreLeavesNothing ==
    [][lastOp' = "storeConfig"
        => /\ ~IniUpload(asked'.upload) => (answer'.status = 400 /\ disk' = disk)
           /\ IniUpload(asked'.upload) => answer'.status # 400
           /\ answer'.status # 200 => disk' = disk]_vars

\* A request for a config, with or without its metadata, that was answered
\* with the status given.
GetStep(status) == lastOp' \in {"getConfig", "getContent"} /\ answer'.status = status

\* Every file of the config directory other than the metadata of id is as
\* it was, and no file came or went.
OthersUntouched(id) ==
    /\ DOMAIN disk'.config = DOMAIN disk.config
    /\ \A n \in DOMAIN disk.config : n # MetadataName(id) => disk'.config[n] = disk.config[n]
    /\ disk'.media = disk.media

\* C23: the metadata a successful store-config writes has downloadCount 0;
\* each successful retrieval, with or without metadata, raises the
\* downloadCount of the config asked for by one and leaves every other file
\* alone; a retrieval answered 404, a listing and a search leave the
\* directories as they were.
C23_DownloadCount ==
    /\ [][(lastOp' = "storeConfig" /\ answer'.status = 200)
            => Downloads(disk', answer'.body[1].v) = 0
               /\ Exists(disk'.config, MetadataName(answer'.body[1].v))]_vars
    /\ [][GetStep(200)
            => /\ Downloads(disk', asked'.id) = Downloads(disk, asked'.id) + 1
               /\ OthersUntouched(asked'.id)]_vars
    /\ [][GetStep(404) => disk' = disk]_vars
    /\ [][lastOp' \in {"listConfigs", "searchConfigs"} => disk' = disk]_vars

\* C23 witness: a config was retrieved for the second time, by its content,
\* while another stored config has never been retrieved.
C23_Witness ==
    /\ lastOp = "getContent"
    /\ answer.status = 200
    /\ Downloads(disk, asked.id) = 2
    /\ \E id \in ConfigIds \ {asked.id} :
        Exists(disk.config, MetadataName(id)) /\ Downloads(disk, id) = 0

\* C24: the identifier a successful store-config assigns is the identifier
\* of no config stored before it: no metadata record of that identifier
\* exists when the request arrives, so none is overwritten.
C24_FreshIdentifier ==
    [][(lastOp' = "storeConfig" /\ answer'.status = 200)
        => ~Exists(disk.config, MetadataName(answer'.body[1].v))]_vars

\* The config file that the metadata record of id names, on the disk d.
ConfigFileOf(d, id) == Member(JsonParse(d.config[MetadataName(id)]).val, KFilename).v

\* The identifiers a listing answered with.
Listed(body) == {Member(body[i], KId).v : i \in 1..Len(body)}

\* C29: DELETE /api/config/:id of a config that has a metadata record is
\* answered 200 and removes that record and the config file it names, and
\* nothing else; for an identifier without a metadata record, GET of the
\* config, GET of its content and DELETE are answered 404 and change
\* nothing; a listing names exactly the identifiers that have a metadata
\* record.
C29_DeleteConfig ==
    /\ [][(lastOp' = "deleteConfig" /\ Exists(disk.config, MetadataName(asked'.id)))
            => /\ answer'.status = 200
               /\ DOMAIN disk'.config =
                    (DOMAIN disk.config) \ {MetadataName(asked'.id), ConfigFileOf(disk, asked'.id)}
               /\ \A n \in DOMAIN disk'.config : disk'.config[n] = disk.config[n]
               /\ disk'.media = disk.media]_vars
    /\ [][(lastOp' \in {"getConfig", "getContent", "deleteConfig"}
           /\ ~Exists(disk.config, MetadataName(asked'.id)))
            => (answer'.status = 404 /\ disk' = disk)]_vars
    /\ [][lastOp' = "listConfigs"
            => Listed(answer'.body) = {id \in ConfigIds : Exists(disk.config, MetadataName(id))}]_vars

\* C29 witness: a config that had been retrieved was deleted, with its
\* file, while another config stays stored.
C29_Witness ==
    /\ lastOp = "deleteConfig"
    /\ answer.status = 200
    /\ ~Exists(disk.config, MetadataName(asked.id))
    /\ \E id \in ConfigIds :
        /\ Exists(disk.config, MetadataName(id))
        /\ Exists(disk.config, ConfigFileOf(disk, id))
        /\ Downloads(disk, id) = 1

(***************************************************************************)
(* storageApi(method, path, body, retries) one attempt at a time: the      *)
(* helper of the server module (src/unnamed/part_002), which reads and     *)
(* writes storageApiAvailable, and the helper of the storage proxy         *)
(* (src/unnamed/part_001), which has no flag.  A call is                   *)
(* [path, guarded, retries, i, pc, requests, waits, aborted, flagAtStart]: *)
(* i is the loop index, requests counts the fetches that went out, waits   *)
(* lists the delays of the backoff timers armed so far.                    *)
(***************************************************************************)
MaxCalls == 3

HealthPath == "/health"
FilePath == "/api/file/config/1"
ConfigsPath == "/api/configs"

\* The callers: ensureStorageAccess and GET /api/load-config of the server
\* module, and a route of the storage proxy.
CallKinds ==
    {[path |-> HealthPath, guarded |-> TRUE],
     [path |-> FilePath, guarded |-> TRUE],
     [path |-> ConfigsPath, guarded |-> FALSE]}

RetryChoices == {Retries}

RECURSIVE Pow2(_)

\* Math.pow(2, i)
Pow2(i) == IF i = 0 THEN 1 ELSE 2 * Pow2(i - 1)

\* Mutant: the same delay after every failed attempt.
FixedDelay(i) == 1000

\* Math.pow(2, i) * 1000
BackoffDelay(i) == Pow2(i) * 1000

\* if (!storageApiAvailable && path !== '/health') throw ...
Refused(k, flag) == k.guarded /\ ~flag /\ k.path # HealthPath

\* The call as it stands when storageApi() first suspends, or has thrown.
NewCall(k, retries, flag) ==
    [path |-> k.path, guarded |-> k.guarded, retries |-> retries, i |-> 0,
     pc |-> IF Refused(k, flag) THEN "unavailable" ELSE "fetch",
     requests |-> IF Refused(k, flag) THEN 0 ELSE 1,
     waits |-> <<>>, aborted |-> FALSE, flagAtStart |-> flag]

\* return data
Succeeded(c) == [c EXCEPT !.pc = "returned"]

\* Mutant: the catch block throws after the first failed attempt.
FailedAtOnce(c) == [c EXCEPT !.pc = "unreachable"]

\* The catch block: the last attempt throws, an earlier one arms the
\* backoff timer.
FailedAttempt(c) ==
    IF c.i = c.retries - 1
    THEN [c EXCEPT !.pc = "unreachable"]
    ELSE [c EXCEPT !.pc = "backoff", !.waits = Append(@, BackoffDelay(c.i))]

\* The next turn of the loop: fetch() with a signal that was aborted
\* rejects without a request, and the catch block runs again.
NextAttempt(c) ==
    IF c.aborted
    THEN FailedAttempt([c EXCEPT !.i = @ + 1])
    ELSE [c EXCEPT !.i = @ + 1, !.pc = "fetch", !.requests = @ + 1]

\* Mutant: a successful call leaves the flag as it was.
FlagKept(flag, c) == IF c.pc = "unreachable" THEN FALSE ELSE flag

\* storageApiAvailable after a step that left call c as given: set on
\* return, cleared on the last failure; the proxy's helper has no flag.
FlagAfter(flag, c) ==
    IF ~c.guarded THEN flag
    ELSE IF c.pc = "returned" THEN TRUE
    ELSE IF c.pc = "unreachable" THEN FALSE
    ELSE flag

ApiLabel(c) ==
    CASE c.pc = "returned" -> "apiReturned"
      [] c.pc = "unreachable" -> "apiUnreachable"
      [] c.pc = "unavailable" -> "apiUnavailable"
      [] c.pc = "backoff" -> "apiBackoff"
      [] OTHER -> "apiFetch"

otherThanApi == <<programVars, serviceVars, routerVars, cacheVars, isAvailable, inflight>>

\* Call n goes on as c.
Advance(n, c) ==
    /\ calls' = [calls EXCEPT ![n] = c]
    /\ acted' = n
    /\ storageApiAvailable' = FlagAfter(storageApiAvailable, c)
    /\ lastOp' = ApiLabel(c)

\* storageApi(...) is called.
StartCall ==
    /\ Len(calls) < MaxCalls
    /\ \E k \in CallKinds, r \in RetryChoices :
        /\ calls' = Append(calls, NewCall(k, r, storageApiAvailable))
        /\ lastOp' = IF Refused(k, storageApiAvailable) THEN "apiUnavailable" ELSE "apiStart"
    /\ acted' = Len(calls) + 1
    /\ UNCHANGED <<storageApiAvailable, healthy>>
    /\ UNCHANGED otherThanApi

\* The fetch of an attempt settles: an OK answer with a JSON body, or
\* anything else (refused connection, non-OK status, a body that is not
\* JSON), which the catch block takes.
AttemptDone ==
    /\ \E n \in 1..Len(calls), ok \in BOOLEAN :
        /\ calls[n].pc = "fetch"
        /\ ok => healthy
        /\ Advance(n, IF ok THEN Succeeded(calls[n]) ELSE FailedAttempt(calls[n]))
    /\ UNCHANGED healthy
    /\ UNCHANGED otherThanApi

\* The 5 second timer of the call fires during the first fetch, the only
\* time it is armed: controller.abort() rejects the fetch.
AbortFires ==
    /\ \E n \in 1..Len(calls) :
        /\ calls[n].pc = "fetch"
        /\ calls[n].i = 0
        /\ Advance(n, FailedAttempt([calls[n] EXCEPT !.aborted = TRUE]))
    /\ UNCHANGED healthy
    /\ UNCHANGED otherThanApi

\* The backoff timer fires and the loop goes round.
BackoffElapsed ==
    /\ \E n \in 1..Len(calls) :
        /\ calls[n].pc = "backoff"
        /\ Advance(n, NextAttempt(calls[n]))
    /\ UNCHANGED healthy
    /\ UNCHANGED otherThanApi

\* The Storage Service goes down or comes back while calls are under way.
ServiceFlips ==
    /\ healthy' = ~healthy
    /\ acted' = 0
    /\ lastOp' = "health"
    /\ UNCHANGED <<storageApiAvailable, calls>>
    /\ UNCHANGED otherThanApi

NextApi ==
    \/ StartCall
    \/ AttemptDone
    \/ AbortFires
    \/ BackoffElapsed
    \/ ServiceFlips

\* let storageApiAvailable = false: no call has been made yet.
InitApi == InitService

SpecApi == InitApi /\ [][NextApi]_vars

(***************************************************************************)
(* C21: storageApi retries with exponential backoff.  A call makes at most *)
(* `retries` requests; the wait armed after the failed attempt number k    *)
(* (counting from 1) is 2^(k-1) seconds, 1 s then 2 s; the 'unreachable'   *)
(* error is thrown only in the last turn of the loop; a request goes out   *)
(* only when a wait has elapsed, one at a time; a call returns out of a    *)
(* pending fetch, and a call that has returned or thrown makes no further  *)
(* request.                                                                *)
(***************************************************************************)
Over(c) == c.pc \in {"returned", "unreachable", "unavailable"}

RetryShape(c) ==
    /\ c.requests <= c.retries
    /\ Len(c.waits) <= c.retries - 1
    /\ \A k \in 1..Len(c.waits) : c.waits[k] = (2 ^ (k - 1)) * 1000
    /\ c.pc = "unreachable" => c.i = c.retries - 1
    /\ c.pc = "unavailable" => c.requests = 0

RetryStep(c, d) ==
    /\ Over(c) => d = c
    /\ d.requests \in {c.requests, c.requests + 1}
    /\ d.requests = c.requests + 1 => c.pc = "backoff" /\ d.pc = "fetch"
    /\ c.pc = "backoff" => Len(c.waits) = c.i + 1
    /\ d.pc = "returned" /\ c.pc # "returned" => c.pc = "fetch" /\ d.requests = c.requests

C21_RetryWithBackoff ==
    /\ [](\A n \in 1..Len(calls) : RetryShape(calls[n]))
    /\ [][\A n \in 1..Len(calls) : RetryStep(calls[n], calls'[n])]_vars

C21_Witness ==
    \E m, n \in 1..Len(calls) :
        /\ calls[m].pc = "unreachable"
        /\ calls[m].requests = 3
        /\ calls[m].waits = <<1000, 2000>>
        /\ calls[n].pc = "returned"
        /\ calls[n].requests = 2
        /\ calls[n].waits = <<1000>>

(***************************************************************************)
(* C27: storageApiAvailable of the server module is overwritten only by    *)
(* request outcomes.  A call for a path other than '/health' made while    *)
(* the flag is false throws at once without a request; a call that returns *)
(* sets the flag; a call whose last attempt fails clears it; no other step *)
(* of storageApi writes it.                                                *)
(***************************************************************************)
CallStarted == Len(calls') = Len(calls) + 1

CallSettled(n, pc) == n = acted' /\ ~CallStarted /\ calls[n].guarded /\ calls'[n].pc = pc

FlagByOutcome ==
    /\ \A n \in 1..Len(calls) :
        /\ CallSettled(n, "returned") => storageApiAvailable'
        /\ CallSettled(n, "unreachable") => ~storageApiAvailable'
    /\ storageApiAvailable' # storageApiAvailable =>
        \E n \in 1..Len(calls) : CallSettled(n, "returned") \/ CallSettled(n, "unreachable")
    /\ CallStarted /\ ~storageApiAvailable /\ calls'[acted'].guarded
           /\ calls'[acted'].path # HealthPath =>
        /\ calls'[acted'].pc = "unavailable"
        /\ calls'[acted'].requests = 0

Restored == ~storageApiAvailable /\ storageApiAvailable'

\* The claim as stated: the flag, once false, is raised by '/health' only.
C27_OnlyHealthRestores ==
    [][FlagByOutcome /\ (Restored => calls'[acted'].path = HealthPath)]_vars

\* As the code has it: the flag, once false, is raised by '/health' or by a
\* call that passed the guard while the flag was still true.
C27_FlagByOutcome ==
    [][/\ FlagByOutcome
       /\ Restored => \/ calls'[acted'].path = HealthPath
                      \/ calls'[acted'].flagAtStart]_vars

\* A '/api/file' call admitted under a true flag returns after a later call
\* has cleared the flag.
C27_Witness ==
    /\ lastOp = "apiReturned"
    /\ storageApiAvailable
    /\ \E n, m \in 1..Len(calls) :
        /\ n = acted
        /\ n < m
        /\ calls[n].path = FilePath
        /\ calls[n].flagAtStart
        /\ calls[m].guarded
        /\ calls[m].pc = "unreachable"

(***************************************************************************)
(* The storage router (second module of src/config-storage.js): six routes *)
(* behind checkStorageAvailability, the upload route with multer in front  *)
(* of it, and ConfigStorage.makeRequest, which every route ends in.        *)
(***************************************************************************)
RouterRoutes == {"upload", "get", "content", "list", "search", "delete"}

\* limits: { fileSize: 5 * 1024 * 1024 }
RouterFileLimit == 5 * 1024 * 1024

BigIni == [Upload(CfgIni, IniText) EXCEPT !.size = RouterFileLimit + 1]

RouterUploads == Uploads \cup {Some(BigIni)}

\* upload.single('config') passes an error on: the fileFilter for a name
\* that does not end in .ini, multer itself for a file over the limit.
MulterRejects(u) ==
    /\ IsSome(u)
    /\ \/ ~EndsWith(ToLowerCase(Val(u).originalname), IniSuffix)
       \/ Val(u).size > RouterFileLimit

\* A request to a route, up to the first await of its handler.  Nothing in
\* the application handles the error multer passes on, so Express answers
\* it with 500.
RouteRequest(route, u, available) ==
    IF route = "upload" /\ MulterRejects(u) THEN Routed(route, u, 500, 0, FALSE)
    ELSE IF ~available THEN Routed(route, u, 503, 0, FALSE)
    ELSE IF route = "upload" /\ u = None THEN Routed(route, u, 400, 0, FALSE)
    ELSE Routed(route, u, 0, 1, FALSE)

\* configStorage.makeRequest(...) up to its await of fetch.
MakeRequest(available) ==
    IF ~available THEN Routed("makeRequest", None, 0, 0, TRUE)
    ELSE Routed("makeRequest", None, 0, 1, FALSE)

\* The handler waits for the Storage Service.
RouterWaits(r) == r.requests = 1 /\ r.status = 0 /\ ~r.threw

\* The statuses the Storage Service can answer a route with.
UpstreamStatuses(route, up) ==
    IF ~up THEN {500}
    ELSE IF route \in {"get", "content", "delete"} THEN {200, 404}
    ELSE {200}

\* makeRequest throws on a status that is not OK; the handlers answer 404
\* where the message holds '404', and 500 otherwise.
RouteSettled(r, s) == [r EXCEPT !.status = s, !.threw = (s # 200)]

otherThanRouter ==
    <<programVars, serviceVars, apiVars, cacheVars, storageApiAvailable, isAvailable,
      healthy, inflight>>

\* A request arrives at one of the guarded routes.
RouterRequest ==
    /\ ~RouterWaits(routed)
    /\ \E route \in RouterRoutes, u \in RouterUploads :
        /\ route # "upload" => u = None
        /\ routed' = RouteRequest(route, u, isAvailable)
    /\ lastOp' = "routerRequest"
    /\ UNCHANGED otherThanRouter

\* Another module calls a method of ConfigStorage.
MakeRequestCall ==
    /\ ~RouterWaits(routed)
    /\ routed' = MakeRequest(isAvailable)
    /\ lastOp' = "makeRequest"
    /\ UNCHANGED otherThanRouter

\* The Storage Service answers, or the request fails.
RouterSettles ==
    /\ RouterWaits(routed)
    /\ \E s \in UpstreamStatuses(routed.route, healthy) :
        routed' = RouteSettled(routed, s)
    /\ lastOp' = "routerSettled"
    /\ UNCHANGED otherThanRouter

NextRouter ==
    \/ RouterRequest
    \/ MakeRequestCall
    \/ RouterSettles
    \/ HealthChange
    \/ CheckHealthTick
    \/ CheckHealthDone

InitRouter == InitService

SpecRouter == InitRouter /\ [][NextRouter]_vars

(***************************************************************************)
(* C28: while ConfigStorage.isAvailable is false, every route behind       *)
(* checkStorageAvailability answers 503 and makes no request to the        *)
(* Storage Service, and makeRequest throws without a request.              *)
(***************************************************************************)
C28_UnavailableAnswers503 ==
    [][~isAvailable =>
        /\ lastOp' = "routerRequest" => routed'.status = 503 /\ routed'.requests = 0
        /\ lastOp' = "makeRequest" => routed'.threw /\ routed'.requests = 0]_vars

(***************************************************************************)
(* configsCache and featureMediaCache of the server module, and their      *)
(* refresh functions, which are alike: refreshConfigsCache() and           *)
(* refreshFeatureMediaCache() are called by an interval timer, by          *)
(* initializeCache() and by the GET route that finds its cache stale.      *)
(***************************************************************************)
MaxUptime == 6

\* CONFIG_CACHE_REFRESH_INTERVAL, FEATURE_MEDIA_CACHE_REFRESH_INTERVAL
RefreshInterval == 5 * 60 * 1000

\* What a fetch of the channel can bring, sorted.
ChannelContents == {<<"a">>, <<"b", "a">>}

\* Date.now()
DateNow(t) == t * TickMs

\* now - cache.lastUpdated > REFRESH_INTERVAL
Stale(c, t) == DateNow(t) - c.lastUpdated > RefreshInterval

\* if (cache.updating) return; cache.updating = true; ... await fetch(...)
BeginRefresh(c) ==
    IF c.updating THEN c
    ELSE [c EXCEPT !.updating = TRUE, !.fetching = @ + 1]

\* The end of the try block.
RefreshOk(c, d, t) ==
    [c EXCEPT !.data = d, !.lastUpdated = DateNow(t), !.updating = FALSE,
              !.fetching = @ - 1]

\* Mutant: the catch block leaves the flag set.
FailureKeepsFlag(c) == [c EXCEPT !.fetching = @ - 1]

\* The catch block.
RefreshFailed(c) == [c EXCEPT !.updating = FALSE, !.fetching = @ - 1]

RefreshLabel(c) == IF c.updating THEN "refreshSkipped" ELSE "refreshStarted"

otherThanCache == <<programVars, storageVars, serviceVars, apiVars, routerVars>>

\* setInterval(refresh..., REFRESH_INTERVAL) fires, or initializeCache()
\* gets to the cache.
RefreshCalled ==
    /\ \E n \in CacheNames :
        /\ caches' = [caches EXCEPT ![n] = BeginRefresh(@)]
        /\ lastOp' = RefreshLabel(caches[n])
    /\ UNCHANGED uptime
    /\ UNCHANGED otherThanCache

\* GET /api/configs or GET /api/feature-videos, up to the first await: a
\* stale cache is refreshed, a fresh one is served as it is.
CacheGet ==
    /\ \E n \in CacheNames :
        IF Stale(caches[n], uptime)
        THEN /\ caches' = [caches EXCEPT ![n] = BeginRefresh(@)]
             /\ lastOp' = RefreshLabel(caches[n])
        ELSE /\ caches' = caches
             /\ lastOp' = "cacheServed"
    /\ UNCHANGED uptime
    /\ UNCHANGED otherThanCache

\* The request to the channel settles: messages arrive, or the request
\* fails, the status is not OK, or the body is not JSON.
RefreshSettles ==
    /\ \E n \in CacheNames :
        /\ caches[n].fetching > 0
        /\ \/ /\ \E d \in ChannelContents :
                   caches' = [caches EXCEPT ![n] = RefreshOk(@, d, uptime)]
              /\ lastOp' = "refreshed"
           \/ /\ caches' = [caches EXCEPT ![n] = RefreshFailed(@)]
              /\ lastOp' = "refreshFailed"
    /\ UNCHANGED uptime
    /\ UNCHANGED otherThanCache

\* Time passes on the server.
UptimeTick ==
    /\ uptime < MaxUptime
    /\ uptime' = uptime + 1
    /\ lastOp' = "uptime"
    /\ UNCHANGED caches
    /\ UNCHANGED otherThanCache

NextCache ==
    \/ RefreshCalled
    \/ CacheGet
    \/ RefreshSettles
    \/ UptimeTick

InitCache == InitService

SpecCache == InitCache /\ [][NextCache]_vars

(***************************************************************************)
(* C30: cache refresh is single-flight.  Each cache has at most one fetch  *)
(* under way, exactly while its updating flag is set; a refresh called     *)
(* while the flag is set changes nothing; the step that ends a fetch       *)
(* clears the flag, by success or by failure; a failed refresh leaves data *)
(* and lastUpdated as they were, and only a successful one writes them.    *)
(***************************************************************************)
OneFetch(c) == c.fetching <= 1 /\ (c.updating <=> c.fetching = 1)

RefreshStep(c, d, op) ==
    /\ c.updating /\ op \in {"refreshStarted", "refreshSkipped", "cacheServed"} => d = c
    /\ d.fetching < c.fetching => ~d.updating /\ op \in {"refreshed", "refreshFailed"}
    /\ d.fetching > c.fetching => ~c.updating /\ op = "refreshStarted"
    /\ op = "refreshFailed" => d.data = c.data /\ d.lastUpdated = c.lastUpdated
    /\ d.data # c.data \/ d.lastUpdated # c.lastUpdated =>
        op = "refreshed" /\ d.fetching < c.fetching

C30_SingleFlight ==
    /\ [](\A n \in CacheNames : OneFetch(caches[n]))
    /\ [][\A n \in CacheNames : RefreshStep(caches[n], caches'[n], lastOp')]_vars

\* A refresh of the configs cache has failed after one that succeeded: the
\* data stays, the cache is stale and the flag is clear.
C30_Witness ==
    /\ lastOp = "refreshFailed"
    /\ caches["configs"].data # <<>>
    /\ caches["configs"].lastUpdated > 0
    /\ Stale(caches["configs"], uptime)
    /\ ~caches["configs"].updating
    /\ caches["featureMedia"].updating
    /\ caches["featureMedia"].lastUpdated = 0

====
